---- MODULE Spec2Model ----
(***************************************************************************)
(* A model of the OpenSearch extension runtime (opensearch-rust-sdk):      *)
(* the lifecycle state machine (src/extension/lifecycle.rs) and the        *)
(* extension runner (src/extension/runner.rs).                             *)
(*                                                                         *)
(* Three specifications share the variables:                               *)
(*   SpecLifecycle  a LifecycleManager on which any caller may request any *)
(*                  transition (transition_to is a public method);         *)
(*   SpecRunner     one ExtensionRunner::run() from construction to its    *)
(*                  return, with the accept loop, the per-connection       *)
(*                  tasks and the shutdown signal;                         *)
(*   SpecServer     ExtensionRunner::run_server against a lifecycle that   *)
(*                  another holder of the Arc<LifecycleManager> (an        *)
(*                  ExtensionHandle) may move while the loop runs.         *)
(***************************************************************************)
EXTENDS Integers, Sequences, FiniteSets, TLC

VARIABLES
    state,      \* LifecycleManager.state: the committed ExtensionState
    visited,    \* history: the states committed so far, oldest first
    lastCall,   \* history: the last transition_to call, [from, to, ok], or NoCall
    lcCalls,    \* number of transition_to calls made by the lifecycle callers
    pc,         \* position of ExtensionRunner::run()
    runResult,  \* what run() returned: "none" while it runs, "ok", or an error
    srv,        \* position of ExtensionRunner::run_server()
    signal,     \* TRUE once the shutdown signal future has completed
    conns,      \* the per-connection tasks spawned so far, in accept order
    acceptErrs, \* number of accept() errors seen by the loop
    regOutcome, \* outcome of the registration exchange, "none" before it
    extRes,     \* what extension.initialize() and extension.shutdown() returned
    won,        \* which branch of run()'s select! completed first, "none" before
    opAt,       \* history: for each operation, the lifecycle states it ran in
    handleRes,  \* results of ExtensionHandle::shutdown calls, oldest first
    extLock,    \* the RwLock around the extension: its writer and its readers
    req,        \* a connection's request: the bytes the peer sent and the I/O outcomes
    hostOut,    \* what Host::handle_connection (main.rs) did with req, "none" before
    runnerOut,  \* what ExtensionRunner::handle_connection did with req, "none" before
    stateLock,  \* the RwLock around LifecycleManager.state: its writer and readers
    lsnLock,    \* the RwLock around LifecycleManager.state_listeners
    listeners,  \* LifecycleManager.state_listeners, in registration order
    task,       \* for each task calling transition_to: its position in the call
    callLog,    \* history: the concurrent transition_to calls, in call order
    notes,      \* history: the on_state_change callbacks run, oldest first
    cb,         \* CircuitBreakerState: state, the two counters, last_failure_time
    cbCfg,      \* CircuitBreaker: failure_threshold, success_threshold, timeout
    now,        \* the clock Instant::now() reads
    cbTask,     \* for each caller of CircuitBreaker::call: its position in the call
    cbLast,     \* history: the last call() that returned, with the breaker around it
    streak,     \* history: failed operations since the last successful one
    opErr,      \* history: the kind of the last error the operation itself returned
    policy,     \* RetryPolicy given to retry_with_policy
    retry,      \* retry_with_policy: its position, attempt and histories
    retryLog,   \* history: what each invocation of the operation returned
    retryRes,   \* what retry_with_policy returned
    extensions, \* DependencyResolver.extensions, in registration order
    resolveRes, \* what the last resolve() returned
    codec,      \* a TransportTcpHeader on its way: arguments, header, bytes, decoded header
    envelope,   \* a Request on its way through serialize and deserialize
    builder     \* an ExtensionBuilder, the extension handed to build, and the result

lcVars == <<state, visited, lastCall, lcCalls>>
runVars == <<pc, runResult, signal, regOutcome, extRes, won, extLock>>
srvVars == <<srv, conns, acceptErrs>>
coreVars == <<state, visited, lastCall, lcCalls, pc, runResult, srv, signal, conns,
              acceptErrs, regOutcome, extRes, won, opAt, handleRes, extLock>>
hcVars == <<req, hostOut, runnerOut>>
lsVars == <<stateLock, lsnLock, listeners, task, callLog, notes>>
cbVars == <<cb, cbCfg, now, cbTask, cbLast, streak, opErr>>
rtVars == <<policy, retry, retryLog, retryRes>>
dpVars == <<extensions, resolveRes>>
cdVars == <<codec>>
evVars == <<envelope>>
bdVars == <<builder>>
auxVars == <<hcVars, lsVars, cbVars, rtVars, dpVars, cdVars, evVars, bdVars>>

\* What the actions of each part leave unchanged outside it.
hcRest == <<coreVars, lsVars, cbVars, rtVars, dpVars, cdVars, evVars, bdVars>>
lsRest == <<runVars, srvVars, opAt, handleRes, hcVars, cbVars, rtVars, dpVars, cdVars, evVars, bdVars>>
cbRest == <<coreVars, hcVars, lsVars, rtVars, dpVars, cdVars, evVars, bdVars>>
rtRest == <<coreVars, hcVars, lsVars, cbVars, dpVars, cdVars, evVars, bdVars>>
dpRest == <<coreVars, hcVars, lsVars, cbVars, rtVars, cdVars, evVars, bdVars>>
cdRest == <<coreVars, hcVars, lsVars, cbVars, rtVars, dpVars, evVars, bdVars>>
evRest == <<coreVars, hcVars, lsVars, cbVars, rtVars, dpVars, cdVars, bdVars>>
bdRest == <<coreVars, hcVars, lsVars, cbVars, rtVars, dpVars, cdVars, evVars>>

\* The callers that share one CircuitBreaker.
BreakerCallers == {"c1", "c2"}

\* The tasks that share one LifecycleManager.
Tasks == {"t1", "t2"}
vars == <<coreVars, auxVars>>

(***************************************************************************)
(* tokio::sync::RwLock as the runner uses it around the extension: a lock   *)
(* is its writer ("none" when there is none) and the set of its readers;   *)
(* a holder is named after the operation it locks the extension for.       *)
(***************************************************************************)
ExtFree == [writer |-> "none", readers |-> {}]

\* write() can complete: nobody holds the lock.
can_write(lock) == lock.writer = "none" /\ lock.readers = {}

\* read() can complete: no writer holds the lock.
can_read(lock) == lock.writer = "none"

\* The guard read() returns.
rw_read(lock, who) == [lock EXCEPT !.readers = @ \cup {who}]

\* A write() that hands out a shared guard.
rw_write_shared(lock, who) == [lock EXCEPT !.readers = @ \cup {who}]

\* The guard write() returns.
rw_write(lock, who) == [lock EXCEPT !.writer = who]

\* A guard going out of scope.
rw_drop(lock, who) ==
    [writer |-> IF lock.writer = who THEN "none" ELSE lock.writer,
     readers |-> lock.readers \ {who}]

Holds(lock, who) == lock.writer = who \/ who \in lock.readers

\* Nothing written to the stream, and a write that failed part-way.
\* (len is content.len(), a usize: four 16-bit limbs, see Limb.)
NoResponse ==
    [framed |-> FALSE, header |-> <<>>, content |-> "none", len |-> <<0, 0, 0, 0>>]

PartialResponse ==
    [framed |-> FALSE, header |-> <<>>, content |-> "partial", len |-> <<0, 0, 0, 0>>]

\* No connection is being handled by either connection handler.
ConnIdle ==
    /\ req = [bytes |-> <<>>]
    /\ hostOut = [result |-> "none", response |-> NoResponse]
    /\ runnerOut = [result |-> "none", response |-> NoResponse]

\* LifecycleManager::new with no transition_to call in progress.
IdleTask == [pc |-> "idle", call |-> 0, idx |-> 0]

ListenersIdle ==
    /\ stateLock = ExtFree
    /\ lsnLock = ExtFree
    /\ listeners = <<>>
    /\ task = [t \in Tasks |-> IdleTask]
    /\ callLog = <<>>
    /\ notes = <<>>

\* last_failure_time: None
NoTime == -1

\* CircuitBreaker::new: the state behind the mutex.
NewBreakerState ==
    [state |-> "Closed", failure_count |-> 0, success_count |-> 0,
     last_failure_time |-> NoTime]

\* No call() has been entered by the caller, and none has returned.
IdleCaller == [pc |-> "idle", pre |-> NewBreakerState, mid |-> NewBreakerState, at |-> 0]

NoCbCall ==
    [call |-> "none", kind |-> "none", invoked |-> FALSE, pre |-> NewBreakerState,
     mid |-> NewBreakerState, post |-> NewBreakerState, at |-> 0, doneAt |-> 0]

\* A breaker as constructed, with nobody calling it.
BreakerIdle ==
    /\ cb = NewBreakerState
    /\ cbCfg = [failure_threshold |-> 1, success_threshold |-> 1, timeout |-> 0]
    /\ now = 0
    /\ cbTask = [c \in BreakerCallers |-> IdleCaller]
    /\ cbLast = NoCbCall
    /\ streak = 0
    /\ opErr = "none"

\* retry_with_policy not called.
NoRetry ==
    [pc |-> "idle", attempt |-> 0, invocations |-> 0, sleeps |-> 0, delay |-> 0, slept |-> <<>>]

\* A policy of one attempt.
OneAttempt ==
    [max_attempts |-> 1, initial_delay |-> 1, max_delay |-> 1, exponential_base |-> 1,
     jitter |-> FALSE]

NoRetryResult == [status |-> "none", value |-> 0, kind |-> "none", attempts |-> 0, cause |-> "none"]

RetryIdle ==
    /\ policy = OneAttempt
    /\ retry = NoRetry
    /\ retryLog = <<>>
    /\ retryRes = NoRetryResult

\* DependencyResolver::new, resolve() not called.
NoResolve == [status |-> "none", order |-> <<>>, error |-> "none", about |-> <<>>]

ResolverIdle ==
    /\ extensions = <<>>
    /\ resolveRes = NoResolve

\* The parts of the SDK a specification leaves out stay as constructed.
\* No header is being built, written or decoded.
NoHeader ==
    [message_length |-> <<0, 0>>, request_id |-> <<0, 0, 0, 0>>, status |-> 0,
     version |-> <<0, 0>>, variable_header_size |-> <<0, 0>>]

NoCodec ==
    [pc |-> "idle", request_id |-> <<0, 0, 0, 0>>, status |-> 0, version |-> <<0, 0>>,
     content_size |-> <<0, 0>>, variable_header_size |-> <<0, 0>>,
     header |-> NoHeader, wire |-> NoResponse,
     parsed |-> [ok |-> FALSE, error |-> "none"]]

CodecIdle == codec = NoCodec

\* No Request is being serialized or deserialized.
NoRequest == [variant |-> "none", content |-> <<>>]

NoEnvelope ==
    [pc |-> "idle", origin |-> "none", request |-> NoRequest, buf |-> <<>>,
     wrote |-> [ok |-> FALSE, n |-> 0],
     decoded |-> [ok |-> FALSE, request |-> NoRequest, error |-> "none"]]

EnvelopeIdle == envelope = NoEnvelope

\* No ExtensionBuilder has been made.
NoExtension == [name |-> "", unique_id |-> "", version |-> ""]

NoBuilder ==
    [pc |-> "idle", name |-> "", unique_id |-> "", version |-> "", thread_pool |-> FALSE,
     extension |-> NoExtension, result |-> "none", error |-> "none"]

BuilderIdle == builder = NoBuilder

FormsIdle == CodecIdle /\ EnvelopeIdle /\ BuilderIdle

AuxIdle ==
    /\ ConnIdle /\ ListenersIdle /\ BreakerIdle /\ RetryIdle /\ ResolverIdle
    /\ FormsIdle

(***************************************************************************)
(* Bounds of the model.                                                    *)
(***************************************************************************)
MaxCalls == 4
MaxConns == 2
MaxAcceptErrs == 2
MaxHandleCalls == 2

(***************************************************************************)
(* Lifecycle state machine: src/extension/lifecycle.rs                     *)
(***************************************************************************)
ExtensionState ==
    {"Created", "Initializing", "Initialized", "Running", "Stopping", "Stopped",
     "Failed"}

NoCall == [from |-> "none", to |-> "none", ok |-> FALSE]

\* A can_transition_to without the wildcard arm (_, Failed).
can_transition_to_no_wildcard(self, next) ==
    <<self, next>> \in
        {<<"Created", "Initializing">>, <<"Initializing", "Initialized">>,
         <<"Initializing", "Failed">>, <<"Initialized", "Running">>,
         <<"Initialized", "Stopping">>, <<"Running", "Stopping">>,
         <<"Stopping", "Stopped">>, <<"Stopping", "Failed">>}

\* A can_transition_to with one more arm, (Initializing, Created).
can_transition_to_restart(self, next) ==
    \/ can_transition_to_no_wildcard(self, next)
    \/ next = "Failed"
    \/ self = "Initializing" /\ next = "Created"

\* ExtensionState::can_transition_to: the match arms in order; the last
\* explicit arm (_, Failed) accepts Failed from every state.
can_transition_to(self, next) ==
    \/ self = "Created" /\ next = "Initializing"
    \/ self = "Initializing" /\ next = "Initialized"
    \/ self = "Initializing" /\ next = "Failed"
    \/ self = "Initialized" /\ next = "Running"
    \/ self = "Initialized" /\ next = "Stopping"
    \/ self = "Running" /\ next = "Stopping"
    \/ self = "Stopping" /\ next = "Stopped"
    \/ self = "Stopping" /\ next = "Failed"
    \/ next = "Failed"

is_terminal(self) == self \in {"Stopped", "Failed"}

is_running(self) == self = "Running"

\* LifecycleManager::transition_to on the current state: the result returned
\* and the state committed (unchanged when the transition is rejected).
transition_to(current, new_state) ==
    IF ~can_transition_to(current, new_state)
    THEN [ok |-> FALSE, state |-> current]
    ELSE [ok |-> TRUE, state |-> new_state]

\* The effect of one transition_to(new_state) call on the lifecycle variables.
Transition(new_state) ==
    LET r == transition_to(state, new_state) IN
    /\ state' = r.state
    /\ visited' = IF r.ok THEN Append(visited, new_state) ELSE visited
    /\ lastCall' = [from |-> state, to |-> new_state, ok |-> r.ok]

\* LifecycleManager::new
LifecycleNew ==
    /\ state = "Created"
    /\ visited = <<"Created">>
    /\ lastCall = NoCall
    /\ lcCalls = 0

\* The runner's fields and histories before run() is entered; at is the
\* position run() starts from ("absent" where there is no runner).
RunnerAt(at) ==
    /\ pc = at
    /\ runResult = "none"
    /\ srv = "absent"
    /\ signal = FALSE
    /\ conns = <<>>
    /\ acceptErrs = 0
    /\ regOutcome = "none"
    /\ extRes = [initialize |-> "none", shutdown |-> "none"]
    /\ won = "none"
    /\ opAt = [o \in {"initialize", "register", "bind", "shutdown"} |-> {}]
    /\ handleRes = <<>>
    /\ extLock = ExtFree

\* Any holder of the manager calls transition_to(new_state).
CallTransition(new_state) ==
    /\ pc = "absent"
    /\ srv = "absent"
    /\ lcCalls < MaxCalls
    /\ Transition(new_state)
    /\ lcCalls' = lcCalls + 1
    /\ UNCHANGED <<runVars, srvVars, opAt, handleRes>>
    /\ UNCHANGED auxVars

InitLifecycle == LifecycleNew /\ RunnerAt("absent") /\ AuxIdle

NextLifecycle == \E t \in ExtensionState : CallTransition(t)

SpecLifecycle == InitLifecycle /\ [][NextLifecycle]_vars

(***************************************************************************)
(* Extension runner: src/extension/runner.rs                               *)
(*                                                                         *)
(* pc names the statement run() executes next:                             *)
(*   to_initializing, initialize, to_initialized, register, to_running,    *)
(*   bind, select, sd_to_stopping, sd_extension, sd_to_stopped, done.      *)
(* srv names the position of the run_server future:                        *)
(*   absent (not created), check (top of the loop), accept (awaiting       *)
(*   accept()), sleep (the delay after an accept error), returned_ok,      *)
(*   returned_err, dropped (cancelled by select!).                         *)
(***************************************************************************)
Range(s) == {s[i] : i \in 1..Len(s)}

\* run() with lines 46 and 48 exchanged: registration before Initialized.
run_next_register_early(p) ==
    CASE p = "to_initializing" -> "initialize"
      [] p = "initialize" -> "register"
      [] p = "register" -> "to_initialized"
      [] p = "to_initialized" -> "to_running"
      [] p = "to_running" -> "bind"
      [] p = "bind" -> "select"

\* The order of run()'s statements up to the select!, each reached when the
\* statement before it returned Ok.
run_next(p) ==
    CASE p = "to_initializing" -> "initialize"
      [] p = "initialize" -> "to_initialized"
      [] p = "to_initialized" -> "register"
      [] p = "register" -> "to_running"
      [] p = "to_running" -> "bind"
      [] p = "bind" -> "select"

\* run() returns the error e: the `?` operator.
Return(e) ==
    /\ pc' = "done"
    /\ runResult' = e

\* A `self.lifecycle.transition_to(target).await?` statement of run() or
\* shutdown(): the error is returned, otherwise run() goes on at next.
TransitionStep(target, next) ==
    /\ Transition(target)
    /\ IF transition_to(state, target).ok
       THEN pc' = next /\ UNCHANGED runResult
       ELSE Return("err_transition")

\* ExtensionRunner::new
InitRunner == LifecycleNew /\ RunnerAt("to_initializing") /\ AuxIdle

\* run(), line 39: transition_to(Initializing)
RunToInitializing ==
    /\ pc = "to_initializing"
    /\ TransitionStep("Initializing", run_next(pc))
    /\ UNCHANGED <<lcCalls, signal, regOutcome, extRes, won, srvVars, opAt, handleRes>>
    /\ UNCHANGED <<extLock, auxVars>>

\* run(), line 42: self.extension.write().await
RunInitializeLock ==
    /\ pc = "initialize"
    /\ ~Holds(extLock, "initialize")
    /\ can_write(extLock)
    /\ extLock' = rw_write(extLock, "initialize")
    /\ UNCHANGED <<lcVars, pc, runResult, signal, regOutcome, extRes, won, srvVars, opAt,
                   handleRes, auxVars>>

\* An initialize() error that moves the lifecycle to Failed before returning.
RunInitializeFailing(outcome) ==
    /\ pc = "initialize"
    /\ Holds(extLock, "initialize")
    /\ extLock' = rw_drop(extLock, "initialize")
    /\ extRes' = [extRes EXCEPT !.initialize = outcome]
    /\ opAt' = [opAt EXCEPT !.initialize = @ \cup {state}]
    /\ IF outcome = "ok"
       THEN pc' = run_next(pc) /\ UNCHANGED <<runResult, state, visited, lastCall>>
       ELSE Return("err_initialize") /\ Transition("Failed")
    /\ UNCHANGED <<lcCalls, signal, regOutcome, won, srvVars, handleRes>>
    /\ UNCHANGED auxVars

\* run(), lines 41-44: extension.initialize(context) under the write lock;
\* its error is returned by `?` with nothing else done.
RunInitialize(outcome) ==
    /\ pc = "initialize"
    /\ Holds(extLock, "initialize")
    /\ extLock' = rw_drop(extLock, "initialize")
    /\ extRes' = [extRes EXCEPT !.initialize = outcome]
    /\ opAt' = [opAt EXCEPT !.initialize = @ \cup {state}]
    /\ IF outcome = "ok"
       THEN pc' = run_next(pc) /\ UNCHANGED runResult
       ELSE Return("err_initialize")
    /\ UNCHANGED <<lcVars, signal, regOutcome, won, srvVars, handleRes>>
    /\ UNCHANGED auxVars

\* run(), line 46: transition_to(Initialized)
RunToInitialized ==
    /\ pc = "to_initialized"
    /\ TransitionStep("Initialized", run_next(pc))
    /\ UNCHANGED <<lcCalls, signal, regOutcome, extRes, won, srvVars, opAt, handleRes>>
    /\ UNCHANGED <<extLock, auxVars>>

\* What the registration exchange can end in: TransportClient::connect timing
\* out or failing, write_all or read_to_end failing, the response not being
\* the expected JSON, and a decoded response with success false or true.
NetOutcomes ==
    {"connect_timeout", "connect_failed", "send_failed", "read_failed",
     "bad_response", "success_false", "success_true"}

\* RegistrationProtocol::register_with_opensearch: Ok(response) or the error.
protocol_result(net) ==
    CASE net = "connect_timeout" -> [ok |-> FALSE, kind |-> "TimeoutError", success |-> FALSE]
      [] net \in {"connect_failed", "send_failed", "read_failed"} ->
            [ok |-> FALSE, kind |-> "TransportError", success |-> FALSE]
      [] net = "bad_response" ->
            [ok |-> FALSE, kind |-> "SerializationError", success |-> FALSE]
      [] net = "success_false" -> [ok |-> TRUE, kind |-> "none", success |-> FALSE]
      [] net = "success_true" -> [ok |-> TRUE, kind |-> "none", success |-> TRUE]

\* A registration step that hands the protocol's error, or a refusal by the
\* host, back to run().
register_result_propagating(r) ==
    IF r.ok /\ r.success THEN "ok" ELSE "err_registration"

\* ExtensionRunner::register_with_opensearch, lines 150-163: every arm of the
\* match only logs, and the function returns Ok(()).
register_result(r) ==
    IF r.ok
    THEN (IF r.success THEN "ok" ELSE "ok")
    ELSE "ok"

\* register_with_opensearch, line 132: self.extension.read().await; the guard
\* lives until the function returns.
RunRegisterLock ==
    /\ pc = "register"
    /\ ~Holds(extLock, "register")
    /\ can_read(extLock)
    /\ extLock' = rw_read(extLock, "register")
    /\ UNCHANGED <<lcVars, pc, runResult, signal, regOutcome, extRes, won, srvVars, opAt,
                   handleRes, auxVars>>

\* run(), line 48: self.register_with_opensearch().await?
RunRegister(net) ==
    /\ pc = "register"
    /\ Holds(extLock, "register")
    /\ extLock' = rw_drop(extLock, "register")
    /\ regOutcome' = net
    /\ opAt' = [opAt EXCEPT !.register = @ \cup {state}]
    /\ IF register_result(protocol_result(net)) = "ok"
       THEN pc' = run_next(pc) /\ UNCHANGED runResult
       ELSE Return(register_result(protocol_result(net)))
    /\ UNCHANGED <<lcVars, signal, extRes, won, srvVars, handleRes>>
    /\ UNCHANGED auxVars

\* run(), line 50: transition_to(Running)
RunToRunning ==
    /\ pc = "to_running"
    /\ TransitionStep("Running", run_next(pc))
    /\ UNCHANGED <<lcCalls, signal, regOutcome, extRes, won, srvVars, opAt, handleRes>>
    /\ UNCHANGED <<extLock, auxVars>>

\* A bind failure that moves the lifecycle to Failed before returning.
RunBindFailing(outcome) ==
    /\ pc = "bind"
    /\ opAt' = [opAt EXCEPT !.bind = @ \cup {state}]
    /\ IF outcome = "ok"
       THEN pc' = run_next(pc) /\ srv' = "check" /\ UNCHANGED <<runResult, state, visited, lastCall>>
       ELSE Return("err_bind") /\ Transition("Failed") /\ UNCHANGED srv
    /\ UNCHANGED <<lcCalls, signal, regOutcome, extRes, won, conns, acceptErrs, handleRes>>
    /\ UNCHANGED <<extLock, auxVars>>

\* run(), lines 52-61: TcpListener::bind; on success the run_server future is
\* created, on failure an initialization error is returned.
RunBind(outcome) ==
    /\ pc = "bind"
    /\ opAt' = [opAt EXCEPT !.bind = @ \cup {state}]
    /\ IF outcome = "ok"
       THEN pc' = run_next(pc) /\ srv' = "check" /\ UNCHANGED runResult
       ELSE Return("err_bind") /\ UNCHANGED srv
    /\ UNCHANGED <<lcVars, signal, regOutcome, extRes, won, conns, acceptErrs, handleRes>>
    /\ UNCHANGED <<extLock, auxVars>>

\* The shutdown signal future completes (Ctrl+C or SIGTERM): it is polled
\* only inside the select!.
ShutdownSignal ==
    /\ pc = "select"
    /\ ~signal
    /\ signal' = TRUE
    /\ UNCHANGED <<lcVars, pc, runResult, regOutcome, extRes, won, srvVars, opAt, handleRes>>
    /\ UNCHANGED <<extLock, auxVars>>

\* A per-connection task: its status, and as history the lifecycle state, the
\* number of accept errors and the number of failed tasks when it was spawned.
Failed(c) == c.st \in {"read_failed", "write_failed"}

NumFailed == Cardinality({i \in 1..Len(conns) : Failed(conns[i])})

Live(s) == s \in {"check", "accept", "sleep"}

\* run_server, lines 80-82: the lifecycle check at the top of every iteration.
ServerCheck ==
    /\ srv = "check"
    /\ srv' = IF ~is_running(state) THEN "returned_ok" ELSE "accept"
    /\ UNCHANGED <<lcVars, runVars, conns, acceptErrs, opAt, handleRes>>
    /\ UNCHANGED auxVars

\* run_server, lines 85-96: accept() returned a stream; a task is spawned for
\* it and the loop goes round.
ServerAcceptOk ==
    /\ srv = "accept"
    /\ Len(conns) < MaxConns
    /\ conns' = Append(conns, [st |-> "spawned", at |-> state,
                               afterErrs |-> acceptErrs, afterFailed |-> NumFailed])
    /\ srv' = "check"
    /\ UNCHANGED <<lcVars, runVars, acceptErrs, opAt, handleRes>>
    /\ UNCHANGED auxVars

\* An accept loop that returns the accept() error.
accept_error_fatal == "returned_err"

\* run_server, lines 97-100: an accept() error is logged and followed by a
\* 100 ms sleep.
accept_error_next == "sleep"

\* run_server, lines 97-100: accept() returned an error.
ServerAcceptErr ==
    /\ srv = "accept"
    /\ acceptErrs < MaxAcceptErrs
    /\ acceptErrs' = acceptErrs + 1
    /\ srv' = accept_error_next
    /\ UNCHANGED <<lcVars, runVars, conns, opAt, handleRes>>
    /\ UNCHANGED auxVars

\* run_server, line 99: the sleep ends and the loop goes round.
ServerWake ==
    /\ srv = "sleep"
    /\ srv' = "check"
    /\ UNCHANGED <<lcVars, runVars, conns, acceptErrs, opAt, handleRes>>
    /\ UNCHANGED auxVars

\* A handler awaited inside the accept loop with `?`: its error ends the loop.
loop_after_handler_error_inline == IF Live(srv) THEN "returned_err" ELSE srv

\* run_server, lines 91-95: the handler runs in a task of its own, and its
\* error is logged there; the accept loop is where it was.
loop_after_handler_error == srv

\* handle_connection, lines 114-120: the read fails (a transport error), or
\* reads 0 bytes (the handler returns Ok), or reads data.
HandlerRead(i, outcome) ==
    /\ conns[i].st = "spawned"
    /\ conns' = [conns EXCEPT ![i].st =
                    CASE outcome = "err" -> "read_failed"
                      [] outcome = "eof" -> "closed"
                      [] outcome = "data" -> "writing"]
    /\ srv' = IF outcome = "err" THEN loop_after_handler_error ELSE srv
    /\ UNCHANGED <<lcVars, runVars, acceptErrs, opAt, handleRes>>
    /\ UNCHANGED auxVars

\* handle_connection, lines 122-126: the greeting is written, or the write
\* fails (a transport error).
HandlerWrite(i, outcome) ==
    /\ conns[i].st = "writing"
    /\ conns' = [conns EXCEPT ![i].st = IF outcome = "err" THEN "write_failed" ELSE "done"]
    /\ srv' = IF outcome = "err" THEN loop_after_handler_error ELSE srv
    /\ UNCHANGED <<lcVars, runVars, acceptErrs, opAt, handleRes>>
    /\ UNCHANGED auxVars

\* The branches of the select! that are ready: the server loop once it has
\* returned, the signal once it has arrived.
ReadyBranches ==
    (IF srv \in {"returned_ok", "returned_err"} THEN {"server"} ELSE {})
        \cup (IF signal THEN {"signal"} ELSE {})

\* A select! whose losing server loop keeps running (a spawned loop).
server_after_signal_kept == srv

\* select!, lines 63-73: the future of the branch that lost is dropped.
server_after_signal == IF Live(srv) THEN "dropped" ELSE srv

\* run(), lines 63-75: the first ready branch of the select! runs (either, when
\* both are ready). A server error moves the lifecycle to Failed; then
\* self.shutdown() is called.
Select ==
    /\ pc = "select"
    /\ \E branch \in ReadyBranches :
        IF branch = "server"
        THEN /\ won' = IF srv = "returned_err" THEN "server_err" ELSE "server_ok"
             /\ IF srv = "returned_err"
                THEN TransitionStep("Failed", "sd_to_stopping")
                ELSE pc' = "sd_to_stopping" /\ UNCHANGED <<runResult, state, visited, lastCall>>
             /\ UNCHANGED srv
        ELSE /\ won' = "signal"
             /\ srv' = server_after_signal
             /\ pc' = "sd_to_stopping"
             /\ UNCHANGED <<runResult, state, visited, lastCall>>
    /\ UNCHANGED <<lcCalls, signal, regOutcome, extRes, conns, acceptErrs, opAt, handleRes>>
    /\ UNCHANGED <<extLock, auxVars>>

\* shutdown(), line 169: transition_to(Stopping)
ShutdownToStopping ==
    /\ pc = "sd_to_stopping"
    /\ TransitionStep("Stopping", "sd_extension")
    /\ UNCHANGED <<lcCalls, signal, regOutcome, extRes, won, srvVars, opAt, handleRes>>
    /\ UNCHANGED <<extLock, auxVars>>

\* shutdown(), line 172: self.extension.write().await
ShutdownExtensionLock ==
    /\ pc = "sd_extension"
    /\ ~Holds(extLock, "shutdown")
    /\ can_write(extLock)
    /\ extLock' = rw_write(extLock, "shutdown")
    /\ UNCHANGED <<lcVars, pc, runResult, signal, regOutcome, extRes, won, srvVars, opAt,
                   handleRes, auxVars>>

\* shutdown(), lines 171-174: extension.shutdown() under the write lock; its
\* error is returned by `?` with nothing else done.
ShutdownExtension(outcome) ==
    /\ pc = "sd_extension"
    /\ Holds(extLock, "shutdown")
    /\ extLock' = rw_drop(extLock, "shutdown")
    /\ extRes' = [extRes EXCEPT !.shutdown = outcome]
    /\ opAt' = [opAt EXCEPT !.shutdown = @ \cup {state}]
    /\ IF outcome = "ok"
       THEN pc' = "sd_to_stopped" /\ UNCHANGED runResult
       ELSE Return("err_shutdown")
    /\ UNCHANGED <<lcVars, signal, regOutcome, won, srvVars, handleRes>>
    /\ UNCHANGED auxVars

\* A shutdown() that returns Ok without the last transition.
ShutdownSkipsStopped ==
    /\ pc = "sd_to_stopped"
    /\ Return("ok")
    /\ UNCHANGED <<lcVars, signal, regOutcome, extRes, won, srvVars, opAt, handleRes>>
    /\ UNCHANGED <<extLock, auxVars>>

\* shutdown(), lines 176-179: transition_to(Stopped), then Ok(()).
ShutdownToStopped ==
    /\ pc = "sd_to_stopped"
    /\ Transition("Stopped")
    /\ IF transition_to(state, "Stopped").ok
       THEN Return("ok")
       ELSE Return("err_transition")
    /\ UNCHANGED <<lcCalls, signal, regOutcome, extRes, won, srvVars, opAt, handleRes>>
    /\ UNCHANGED <<extLock, auxVars>>

\* The accept loop and the per-connection tasks.
ServerNext ==
    \/ ServerCheck
    \/ ServerAcceptOk
    \/ ServerAcceptErr
    \/ ServerWake
    \/ \E i \in 1..Len(conns) : \E o \in {"err", "eof", "data"} : HandlerRead(i, o)
    \/ \E i \in 1..Len(conns) : \E o \in {"err", "ok"} : HandlerWrite(i, o)

NextRunner ==
    \/ RunToInitializing
    \/ RunInitializeLock
    \/ \E o \in {"ok", "err"} : RunInitialize(o)
    \/ RunToInitialized
    \/ RunRegisterLock
    \/ \E n \in NetOutcomes : RunRegister(n)
    \/ RunToRunning
    \/ \E o \in {"ok", "err"} : RunBind(o)
    \/ ShutdownSignal
    \/ Select
    \/ ShutdownToStopping
    \/ ShutdownExtensionLock
    \/ \E o \in {"ok", "err"} : ShutdownExtension(o)
    \/ ShutdownToStopped
    \/ ServerNext

SpecRunner == InitRunner /\ [][NextRunner]_vars

(***************************************************************************)
(* run_server beside an ExtensionHandle that shares the lifecycle manager  *)
(* (runner.rs, lines 207-231): the loop has been entered in Running, as    *)
(* run() enters it, and the handle's shutdown() may be called meanwhile.   *)
(***************************************************************************)
\* ExtensionHandle::shutdown: Ok at once in a terminal state, otherwise the
\* result of transition_to(Stopping).
HandleShutdown ==
    /\ Len(handleRes) < MaxHandleCalls
    /\ IF is_terminal(state)
       THEN handleRes' = Append(handleRes, "ok") /\ UNCHANGED <<state, visited, lastCall>>
       ELSE /\ Transition("Stopping")
            /\ handleRes' = Append(handleRes,
                    IF transition_to(state, "Stopping").ok THEN "ok" ELSE "err_transition")
    /\ UNCHANGED <<lcCalls, runVars, srvVars, opAt>>
    /\ UNCHANGED auxVars

InitServer ==
    /\ state = "Running"
    /\ visited = <<"Created", "Initializing", "Initialized", "Running">>
    /\ lastCall = [from |-> "Initialized", to |-> "Running", ok |-> TRUE]
    /\ lcCalls = 0
    /\ pc = "serving"
    /\ runResult = "none"
    /\ srv = "check"
    /\ signal = FALSE
    /\ conns = <<>>
    /\ acceptErrs = 0
    /\ regOutcome = "none"
    /\ extRes = [initialize |-> "none", shutdown |-> "none"]
    /\ won = "none"
    /\ opAt = [o \in {"initialize", "register", "bind", "shutdown"} |-> {}]
    /\ handleRes = <<>>
    /\ extLock = ExtFree
    /\ AuxIdle

NextServer == ServerNext \/ HandleShutdown

SpecServer == InitServer /\ [][NextServer]_vars

(***************************************************************************)
(* The transition table as the specification words it: the explicit pairs, *)
(* and Failed from every non-terminal state.                               *)
(***************************************************************************)
InTable(s, t) ==
    \/ <<s, t>> \in
        {<<"Created", "Initializing">>, <<"Initializing", "Initialized">>,
         <<"Initializing", "Failed">>, <<"Initialized", "Running">>,
         <<"Initialized", "Stopping">>, <<"Running", "Stopping">>,
         <<"Stopping", "Stopped">>, <<"Stopping", "Failed">>}
    \/ (t = "Failed" /\ s \notin {"Stopped", "Failed"})

\* C1: for every pair (s, t) of the transition table, transition_to(t) called
\* in state s returns Ok and current_state() is t afterwards.
C1_TableTransitionsSucceed ==
    (lastCall # NoCall /\ InTable(lastCall.from, lastCall.to))
        => (lastCall.ok /\ state = lastCall.to)

\* C1 witness: the escape hatch taken from Running, a pair only the wildcard
\* arm accepts.
C1_Witness ==
    /\ lastCall = [from |-> "Running", to |-> "Failed", ok |-> TRUE]
    /\ state = "Failed"

\* C2: for every pair (s, t) outside the transition table, transition_to(t)
\* called in state s returns an error and leaves the state equal to s.
C2_OutsideTableRejected ==
    (lastCall # NoCall /\ ~InTable(lastCall.from, lastCall.to))
        => (~lastCall.ok /\ state = lastCall.from)

(***************************************************************************)
(* The runner's claims, under SpecRunner (C8 under SpecServer).            *)
(***************************************************************************)
HappyPath ==
    <<"Created", "Initializing", "Initialized", "Running", "Stopping", "Stopped">>

IsPrefix(a, b) == Len(a) <= Len(b) /\ \A i \in 1..Len(a) : a[i] = b[i]

\* C3: while run() has not failed the lifecycle has gone through a prefix of
\* Created, Initializing, Initialized, Running, Stopping, Stopped, and all of
\* it once run() has returned Ok; initialize() has run only in Initializing,
\* registration only in Initialized, every connection was accepted in Running,
\* and shutdown() has run only in Stopping.
C3_FailureFreeOrder ==
    /\ runResult \in {"none", "ok"} => IsPrefix(visited, HappyPath)
    /\ runResult = "ok" => visited = HappyPath
    /\ opAt.initialize \subseteq {"Initializing"}
    /\ opAt.register \subseteq {"Initialized"}
    /\ \A i \in 1..Len(conns) : conns[i].at = "Running"
    /\ opAt.shutdown \subseteq {"Stopping"}

\* C3 witness: run() has returned Ok after serving a connection.
C3_Witness ==
    /\ runResult = "ok"
    /\ visited = HappyPath
    /\ opAt.initialize = {"Initializing"}
    /\ opAt.register = {"Initialized"}
    /\ opAt.shutdown = {"Stopping"}
    /\ Len(conns) > 0

\* C4: once extension.initialize() has returned an error, run() has returned
\* that error, the lifecycle is at Initializing after the single transition
\* Created -> Initializing, and no registration, bind, accept or
\* extension.shutdown() has happened.
C4_InitializeErrorAborts ==
    extRes.initialize = "err" =>
        /\ pc = "done"
        /\ runResult = "err_initialize"
        /\ state = "Initializing"
        /\ visited = <<"Created", "Initializing">>
        /\ regOutcome = "none"
        /\ opAt.register = {}
        /\ opAt.bind = {}
        /\ srv = "absent"
        /\ conns = <<>>
        /\ opAt.shutdown = {}
        /\ extRes.shutdown = "none"

\* C4 witness: run() has returned the error of initialize().
C4_Witness ==
    /\ extRes.initialize = "err"
    /\ runResult = "err_initialize"
    /\ opAt.initialize = {"Initializing"}

\* C5: whatever the registration exchange ended in, run() does not return a
\* registration error: right after it run() is about to move Initialized ->
\* Running, and later Running has been entered; the only errors run() can
\* still return are those of bind and of extension.shutdown().
C5_RegistrationBestEffort ==
    regOutcome # "none" =>
        /\ runResult \in {"none", "ok", "err_bind", "err_shutdown"}
        /\ \/ pc = "to_running" /\ state = "Initialized" /\ runResult = "none"
           \/ "Running" \in Range(visited)
        /\ (opAt.bind # {} /\ runResult # "err_bind") => srv # "absent"

\* C5 witness: the connection to the host failed, and the extension is
\* Running and has served a connection.
C5_Witness ==
    /\ regOutcome = "connect_failed"
    /\ state = "Running"
    /\ \E i \in 1..Len(conns) : conns[i].st = "done"

\* C6: a run() that entered Stopping has, when it returns, a terminal
\* lifecycle: Stopped if extension.shutdown() succeeded, Failed if it returned
\* an error, and that error is what run() returns.
C6_StoppingEndsTerminal ==
    (pc = "done" /\ "Stopping" \in Range(visited)) =>
        /\ is_terminal(state)
        /\ extRes.shutdown = "ok" => state = "Stopped"
        /\ extRes.shutdown = "err" => (state = "Failed" /\ runResult = "err_shutdown")

\* C7: if the server loop's branch of the select! completed with an error the
\* lifecycle has been moved to Failed and is Failed when run() returns; if the
\* signal's branch completed first, run() goes through the orderly shutdown:
\* Stopping, extension.shutdown() in Stopping, and Stopped when that succeeded.
C7_SelectOutcome ==
    /\ won = "server_err" =>
        /\ "Failed" \in Range(visited)
        /\ pc = "done" => state = "Failed"
    /\ won = "signal" =>
        /\ IsPrefix(visited, HappyPath)
        /\ pc \in {"sd_to_stopping", "sd_extension", "sd_to_stopped", "done"}
        /\ pc = "sd_to_stopping" => state = "Running"
        /\ pc \in {"sd_extension", "sd_to_stopped"} => state = "Stopping"
        /\ pc = "done" =>
            /\ opAt.shutdown = {"Stopping"}
            /\ extRes.shutdown = "ok" => (state = "Stopped" /\ runResult = "ok")

\* C7 witness: the signal won and the orderly shutdown has completed.
C7_Witness ==
    /\ won = "signal"
    /\ pc = "done"
    /\ state = "Stopped"
    /\ extRes.shutdown = "ok"

\* C8: the accept loop leaves the top of an iteration for accept() when the
\* lifecycle is Running and returns Ok otherwise; it never returns an error; an
\* accept() error is followed by the sleep and the sleep by the next
\* iteration; a connection is only accepted from accept(); and the loop has
\* not returned while the lifecycle is Running.
C8_AcceptLoop ==
    /\ [](srv # "returned_err")
    /\ [](srv = "returned_ok" => ~is_running(state))
    /\ [](is_running(state) => Live(srv))
    /\ [][(srv = "check" /\ srv' # srv) =>
            srv' = IF is_running(state) THEN "accept" ELSE "returned_ok"]_vars
    /\ [][acceptErrs' # acceptErrs => (srv = "accept" /\ srv' = "sleep")]_vars
    /\ [][(srv = "sleep" /\ srv' # srv) => srv' = "check"]_vars
    /\ [][Len(conns') > Len(conns) => (srv = "accept" /\ srv' = "check")]_vars

\* C8 witness: the loop took a connection after an accept() error and has
\* returned Ok after the lifecycle left Running.
C8_Witness ==
    /\ srv = "returned_ok"
    /\ state = "Stopping"
    /\ \E i \in 1..Len(conns) : conns[i].afterErrs > 0

\* C9: once the signal's branch of the select! has completed, no connection is
\* accepted and no per-connection task is spawned; no connection was ever
\* accepted in Stopping or later; and the accept loop is no longer live.
C9_NoAcceptAfterShutdown ==
    /\ [][won = "signal" => Len(conns') = Len(conns)]_vars
    /\ [](\A i \in 1..Len(conns) : conns[i].at \notin {"Stopping", "Stopped", "Failed"})
    /\ [](won = "signal" => ~Live(srv))

\* C9 witness: shutdown has completed while a per-connection task spawned
\* before it is still in flight.
C9_Witness ==
    /\ won = "signal"
    /\ state = "Stopped"
    /\ \E i \in 1..Len(conns) : conns[i].st = "spawned"

\* C10: a step in which a per-connection task fails (read or write error)
\* changes neither the lifecycle state, nor the accept loop's position, nor
\* run()'s position or result; and while run() is in the select! with failed
\* tasks behind it the lifecycle is Running and the accept loop is live.
C10_HandlerErrorsConfined ==
    /\ [][NumFailed' > NumFailed =>
            (state' = state /\ srv' = srv /\ pc' = pc /\ runResult' = runResult)]_vars
    /\ []((NumFailed > 0 /\ pc = "select") => (is_running(state) /\ Live(srv)))
    /\ [](won \notin {"server_ok", "server_err"})

\* C10 witness: a connection accepted after another task had failed has been
\* handled to the end, with the lifecycle Running.
C10_Witness ==
    /\ state = "Running"
    /\ \E i \in 1..Len(conns) : conns[i].afterFailed > 0 /\ conns[i].st = "done"


(***************************************************************************)
(* The transport header codec (transport.rs) and the two per-connection    *)
(* handlers: Host::handle_connection (main.rs, lines 50-127) and           *)
(* ExtensionRunner::handle_connection (runner.rs, lines 107-127).  A       *)
(* stream is the sequence of bytes the peer sent before closing its write  *)
(* half; a response's content is named by a tag and its length.            *)
(***************************************************************************)
MARKER_BYTES == <<69, 83>>
REQUEST_ID_SIZE == 8
STATUS_SIZE == 1
VERSION_ID_SIZE == 4
STATUS_REQRES == 1
STATUS_ERROR == 2
STATUS_COMPRESS == 4
STATUS_HANDSHAKE == 8

\* Lengths of the three fixed response contents.
HandshakeContentLen == 31
RequestContentLen == 105
RunnerGreetingLen == 20

\* The buffer ExtensionRunner::handle_connection reads into.
RunnerBufferLen == 1024

\* Number of request versions and request ids the peer chooses from.
MaxVersion == 1
MaxRequestId == 1

\* A u32, a u64 or a usize is the big-endian sequence of its 16-bit limbs
\* (two, four and four of them), so that values up to u64::MAX and sums past
\* u32::MAX are within reach.
Limb == 65536

\* The k-limb number of a small n.
RECURSIVE wide(_, _)
wide(n, k) ==
    IF k = 0 THEN <<>> ELSE Append(wide(n \div Limb, k - 1), n % Limb)

\* uN::to_le_bytes: the least significant byte first.
RECURSIVE to_le_bytes(_)
to_le_bytes(x) ==
    IF x = <<>> THEN <<>>
    ELSE to_le_bytes(Tail(x)) \o <<x[1] % 256, x[1] \div 256>>

\* uN::to_be_bytes: the most significant byte first.
RECURSIVE to_be_bytes(_)
to_be_bytes(x) ==
    IF x = <<>> THEN <<>>
    ELSE <<x[1] \div 256, x[1] % 256>> \o to_be_bytes(Tail(x))

\* uN::from_be_bytes
RECURSIVE from_be_bytes(_)
from_be_bytes(b) ==
    IF b = <<>> THEN <<>>
    ELSE <<b[1] * 256 + b[2]>> \o from_be_bytes(SubSeq(b, 3, Len(b)))

\* `as usize` of a u32 and `as u32` of a usize (usize has 64 bits).
as_usize(x) == <<0, 0>> \o x

as_u32(x) == SubSeq(x, 3, 4)

\* usize + usize, limb by limb from the right with carry c.  (No sum of this
\* module reaches 2^64, where a debug build panics and a release build wraps.)
RECURSIVE add_carry(_, _, _)
add_carry(a, b, c) ==
    IF a = <<>> THEN <<>>
    ELSE LET sum == a[Len(a)] + b[Len(b)] + c
         IN  Append(add_carry(SubSeq(a, 1, Len(a) - 1), SubSeq(b, 1, Len(b) - 1),
                              sum \div Limb),
                    sum % Limb)

add(a, b) == add_carry(a, b, 0)

\* TransportTcpHeader::new, lines 35-39: the sum, a usize.
message_length_of(content_size, variable_header_size) ==
    add(add(add(add(as_usize(content_size), wide(REQUEST_ID_SIZE, 4)),
                wide(STATUS_SIZE, 4)),
            wide(VERSION_ID_SIZE, 4)),
        as_usize(variable_header_size))

\* usize::try_into::<u32>
try_into_u32(x) == [ok |-> x[1] = 0 /\ x[2] = 0, value |-> as_u32(x)]

\* TransportTcpHeader::new, lines 41-43: expect() panics when the sum does
\* not fit a u32.
new_panics(content_size, variable_header_size) ==
    ~try_into_u32(message_length_of(content_size, variable_header_size)).ok

\* TransportTcpHeader::new, where it returns.
TransportTcpHeader_new(request_id, status, version, content_size, variable_header_size) ==
    [message_length |->
        try_into_u32(message_length_of(content_size, variable_header_size)).value,
     request_id |-> request_id,
     status |-> status,
     version |-> version,
     variable_header_size |-> variable_header_size]

is_handshake(header) == header.status = STATUS_HANDSHAKE

\* A test of the request/response bit alone.
has_request_response_bit(header) == (header.status \div STATUS_REQRES) % 2 = 1

is_request_response(header) == header.status = STATUS_REQRES

is_error(header) == header.status = STATUS_ERROR

is_compressed(header) == header.status = STATUS_COMPRESS

\* The 23 bytes write_response puts before the content.
header_bytes(header) ==
    MARKER_BYTES \o to_be_bytes(header.message_length)
        \o to_be_bytes(header.request_id) \o <<header.status>>
        \o to_be_bytes(header.version)
        \o to_be_bytes(header.variable_header_size)

ParseErr(msg) == [ok |-> FALSE, error |-> msg]

\* A comparison of the first byte only.
prefix_starts(prefix) == prefix[1] = MARKER_BYTES[1]

\* from_stream, line 72: &prefix != MARKER_BYTES
prefix_matches(prefix) == prefix = MARKER_BYTES

\* TransportTcpHeader::from_stream: six read_exact calls, each failing when
\* the stream ends before the bytes it asks for.
from_stream(bytes) ==
    IF Len(bytes) < 2 THEN ParseErr("Unable to parse prefix")
    ELSE IF ~prefix_matches(SubSeq(bytes, 1, 2)) THEN ParseErr("Invalid header prefix")
    ELSE IF Len(bytes) < 6 THEN ParseErr("Unable to parse size")
    ELSE IF Len(bytes) < 14 THEN ParseErr("Cannot parse request_id")
    ELSE IF Len(bytes) < 15 THEN ParseErr("Unable to parse status")
    ELSE IF Len(bytes) < 19 THEN ParseErr("Unable to parse version")
    ELSE IF Len(bytes) < 23 THEN ParseErr("Unable to parse variable_header_size")
    ELSE [ok |-> TRUE,
          header |-> [message_length |-> from_be_bytes(SubSeq(bytes, 3, 6)),
                      request_id |-> from_be_bytes(SubSeq(bytes, 7, 14)),
                      status |-> bytes[15],
                      version |-> from_be_bytes(SubSeq(bytes, 16, 19)),
                      variable_header_size |-> from_be_bytes(SubSeq(bytes, 20, 23))]]

\* write_response: the header bytes, then the content.
write_response(header, content, len) ==
    [framed |-> TRUE, header |-> header_bytes(header), content |-> content, len |-> len]

\* handle_handshake (the sum in new is 44, so new returns)
handle_handshake(header) ==
    write_response(
        TransportTcpHeader_new(header.request_id, STATUS_REQRES, header.version,
                               as_u32(wide(HandshakeContentLen, 4)), wide(0, 2)),
        "handshake_greeting", wide(HandshakeContentLen, 4))

\* handle_request_response (the sum in new is 118, so new returns)
handle_request_response(header) ==
    write_response(
        TransportTcpHeader_new(header.request_id, STATUS_REQRES, header.version,
                               as_u32(wide(RequestContentLen, 4)), wide(0, 2)),
        "hello_world_json", wide(RequestContentLen, 4))

\* What Host::handle_connection writes for a parsed header.
host_response(header) ==
    IF is_handshake(header) THEN handle_handshake(header)
    ELSE IF is_request_response(header) THEN handle_request_response(header)
    ELSE NoResponse

\* The streams a peer may send: a header it built, under the marker or a wrong
\* one, cut after any number of bytes or followed by one byte of message.
Markers == {MARKER_BYTES, <<69, 84>>}

StatusBytes == 0 .. 255

CutPoints == {0, 1, 2, 5, 13, 14, 18, 22, 23, 24}

PeerStream(marker, request_id, status, version, cut) ==
    LET h == TransportTcpHeader_new(request_id, status, version, wide(1, 2), wide(0, 2))
        full == marker \o SubSeq(header_bytes(h), 3, 23) \o <<0>>
    IN  SubSeq(full, 1, cut)

\* A connection arrives: the peer has sent its bytes.
InitConn ==
    /\ LifecycleNew
    /\ RunnerAt("absent")
    /\ \E m \in Markers, id \in 0 .. MaxRequestId, st \in StatusBytes,
          v \in 0 .. MaxVersion, cut \in CutPoints :
            req = [bytes |-> PeerStream(m, wide(id * 258, 4), st, wide(v * 3000000, 2), cut)]
    /\ hostOut = [result |-> "none", response |-> NoResponse]
    /\ runnerOut = [result |-> "none", response |-> NoResponse]
    /\ ListenersIdle /\ BreakerIdle /\ RetryIdle /\ ResolverIdle /\ FormsIdle

\* Host::handle_connection, with the outcomes of try_clone and of the writes.
HostHandle(clone, write) ==
    /\ hostOut.result = "none"
    /\ LET parsed == from_stream(req.bytes)
           resp == IF parsed.ok THEN host_response(parsed.header) ELSE NoResponse
       IN  hostOut' =
             IF clone = "err" THEN [result |-> "err_clone", response |-> NoResponse]
             ELSE IF resp = NoResponse THEN [result |-> "ok", response |-> NoResponse]
             ELSE IF write = "err" THEN [result |-> "err_write", response |-> PartialResponse]
             ELSE [result |-> "ok", response |-> resp]
    /\ UNCHANGED <<hcRest, req, runnerOut>>

\* What the runner's handler writes after reading n bytes: the same greeting
\* for every request, with no header.
runner_response(n) ==
    [framed |-> FALSE, header |-> <<>>, content |-> "hello_from_extension",
     len |-> wide(RunnerGreetingLen, 4)]

\* ExtensionRunner::handle_connection, with the outcomes of read and write.
RunnerHandle(read, write) ==
    /\ runnerOut.result = "none"
    /\ LET n == IF Len(req.bytes) < RunnerBufferLen THEN Len(req.bytes) ELSE RunnerBufferLen
       IN  runnerOut' =
             IF read = "err" THEN [result |-> "err_read", response |-> NoResponse]
             ELSE IF n = 0 THEN [result |-> "ok", response |-> NoResponse]
             ELSE IF write = "err" THEN [result |-> "err_write", response |-> PartialResponse]
             ELSE [result |-> "ok", response |-> runner_response(n)]
    /\ UNCHANGED <<hcRest, req, hostOut>>

NextConn ==
    \/ \E c \in {"ok", "err"}, w \in {"ok", "err"} : HostHandle(c, w)
    \/ \E r \in {"ok", "err"}, w \in {"ok", "err"} : RunnerHandle(r, w)

SpecConn == InitConn /\ [][NextConn]_vars

\* The response the specification gives a handler that returned Ok on a
\* stream carrying a whole header: a framed response (header and content)
\* for a handshake or a request/response, none for any other status.
ConnResponseAsSpecified(out) ==
    LET parsed == from_stream(req.bytes)
    IN  (out.result = "ok" /\ parsed.ok) =>
            IF parsed.header.status \in {STATUS_HANDSHAKE, STATUS_REQRES}
            THEN out.response.framed /\ Len(out.response.header) = 23
                    /\ out.response.len # wide(0, 4)
            ELSE out.response = NoResponse

\* C11: for each connection the handler decodes the transport header and
\* branches on its status: a handshake or a request/response gets a response
\* header plus payload, any other status gets no response.  Stated of both
\* handlers; the runner's handler breaks it.
C11_HandlerBranchesOnStatus ==
    ConnResponseAsSpecified(hostOut) /\ ConnResponseAsSpecified(runnerOut)

\* The same property of Host::handle_connection alone, which has it.
HostBranchesOnStatus == ConnResponseAsSpecified(hostOut)


\* C12: extension.initialize() and extension.shutdown() each run holding the
\* exclusive write access to the extension: while one of them runs it is the
\* writer and there is no reader, the registration's read access and the two
\* write accesses are never held together, each guard is held only while its
\* operation runs, and neither operation returns without its write guard.
C12_ExclusiveExtensionAccess ==
    /\ [](/\ Holds(extLock, "initialize") =>
                (pc = "initialize" /\ extLock = [writer |-> "initialize", readers |-> {}])
          /\ Holds(extLock, "shutdown") =>
                (pc = "sd_extension" /\ extLock = [writer |-> "shutdown", readers |-> {}])
          /\ Holds(extLock, "register") =>
                (pc = "register" /\ extLock = [writer |-> "none", readers |-> {"register"}]))
    /\ [][/\ extRes'.initialize # extRes.initialize =>
                extLock = [writer |-> "initialize", readers |-> {}]
          /\ extRes'.shutdown # extRes.shutdown =>
                extLock = [writer |-> "shutdown", readers |-> {}]]_vars

\* C12 witness: shutdown() holds the write guard after initialize() ran under
\* its own and the registration under its read guard.
C12_Witness ==
    /\ pc = "sd_extension"
    /\ extLock.writer = "shutdown"
    /\ extRes.initialize = "ok"
    /\ regOutcome # "none"


(***************************************************************************)
(* LifecycleManager shared by concurrent tasks (lifecycle.rs, lines 59-99): *)
(* transition_to step by step, with the two RwLocks, listeners registered  *)
(* meanwhile, and listeners that call current_state() in their callback.   *)
(***************************************************************************)
MaxLsCalls == 2

\* The listeners that may be registered, in any order.
ListenerIds == {"l1", "l2"}

\* The targets the tasks ask for: the start of the lifecycle, the escape
\* hatch, and a target no state reached by these accepts.
LsTargets == {"Initializing", "Initialized", "Failed", "Stopped"}

\* A transition_to call just made: nothing validated or committed yet.
NewCall(t, new_state) ==
    [by |-> t, to |-> new_state, status |-> "pending", old |-> "none", at |-> 0,
     regd |-> <<>>, snap |-> <<>>]

\* A task calls transition_to(new_state).
LsCall(t, new_state) ==
    /\ task[t].pc = "idle"
    /\ lcCalls < MaxLsCalls
    /\ lcCalls' = lcCalls + 1
    /\ callLog' = Append(callLog, NewCall(t, new_state))
    /\ task' = [task EXCEPT ![t] = [pc |-> "lock", call |-> lcCalls + 1, idx |-> 0]]
    /\ UNCHANGED <<state, visited, lastCall, stateLock, lsnLock, listeners, notes>>
    /\ UNCHANGED lsRest

\* transition_to, line 64: self.state.write().await
LsAcquire(t) ==
    /\ task[t].pc = "lock"
    /\ can_write(stateLock)
    /\ stateLock' = rw_write(stateLock, t)
    /\ task' = [task EXCEPT ![t].pc = "commit"]
    /\ UNCHANGED <<lcVars, lsnLock, listeners, callLog, notes>>
    /\ UNCHANGED lsRest

\* A transition_to without line 74: the guard lives until the function returns.
state_guard_kept(lock, t) == lock

\* transition_to, line 74: drop(current), before the listeners are notified.
state_guard_after_commit(lock, t) == rw_drop(lock, t)

\* transition_to, lines 66-74: validate; on rejection return the error (the
\* guard is dropped with it), otherwise commit and drop the guard.
LsCommit(t) ==
    /\ task[t].pc = "commit"
    /\ Transition(callLog[task[t].call].to)
    /\ IF transition_to(state, callLog[task[t].call].to).ok
       THEN /\ stateLock' = state_guard_after_commit(stateLock, t)
            /\ callLog' = [callLog EXCEPT ![task[t].call] =
                    [@ EXCEPT !.status = "committed", !.old = state,
                              !.at = Len(visited) + 1, !.regd = listeners]]
            /\ task' = [task EXCEPT ![t].pc = "notify_lock"]
       ELSE /\ stateLock' = rw_drop(stateLock, t)
            /\ callLog' = [callLog EXCEPT ![task[t].call].status = "rejected"]
            /\ task' = [task EXCEPT ![t] = IdleTask]
    /\ UNCHANGED <<lcCalls, lsnLock, listeners, notes>>
    /\ UNCHANGED lsRest

\* notify_listeners, line 87: self.state_listeners.read().await
LsNotifyLock(t) ==
    /\ task[t].pc = "notify_lock"
    /\ can_read(lsnLock)
    /\ lsnLock' = rw_read(lsnLock, t)
    /\ callLog' = [callLog EXCEPT ![task[t].call].snap = listeners]
    /\ task' = [task EXCEPT ![t].pc = "notify", ![t].idx = 1]
    /\ UNCHANGED <<lcVars, stateLock, listeners, notes>>
    /\ UNCHANGED lsRest

\* A loop that walks the listeners from the last registered to the first.
next_listener_reversed(ls, idx) == ls[Len(ls) + 1 - idx]

\* notify_listeners, line 88: listeners.iter()
next_listener(ls, idx) == ls[idx]

\* notify_listeners, line 89: one on_state_change(old, new).await; the listener
\* reads current_state() in it (line 60: self.state.read().await).
LsCallback(t) ==
    /\ task[t].pc = "notify"
    /\ task[t].idx <= Len(listeners)
    /\ can_read(stateLock)
    /\ notes' = Append(notes,
            [listener |-> next_listener(listeners, task[t].idx),
             call |-> task[t].call,
             old |-> callLog[task[t].call].old,
             new |-> callLog[task[t].call].to,
             seen |-> state,
             seenAt |-> Len(visited)])
    /\ task' = [task EXCEPT ![t].idx = @ + 1]
    /\ UNCHANGED <<lcVars, stateLock, lsnLock, listeners, callLog>>
    /\ UNCHANGED lsRest

\* notify_listeners returns and transition_to returns Ok(()): every guard of
\* the call still alive is dropped.
LsNotifyDone(t) ==
    /\ task[t].pc = "notify"
    /\ task[t].idx > Len(listeners)
    /\ lsnLock' = rw_drop(lsnLock, t)
    /\ stateLock' = rw_drop(stateLock, t)
    /\ callLog' = [callLog EXCEPT ![task[t].call].status = "ok"]
    /\ task' = [task EXCEPT ![t] = IdleTask]
    /\ UNCHANGED <<lcVars, listeners, notes>>
    /\ UNCHANGED lsRest

\* add_listener, lines 81-84: the write guard is taken, the listener pushed
\* and the guard dropped with no await in between.
LsAddListener(l) ==
    /\ l \notin Range(listeners)
    /\ can_write(lsnLock)
    /\ listeners' = Append(listeners, l)
    /\ UNCHANGED <<lcVars, stateLock, lsnLock, task, callLog, notes>>
    /\ UNCHANGED lsRest

\* The steps of a transition_to call once it is made.
LsStep(t) ==
    \/ LsAcquire(t)
    \/ LsCommit(t)
    \/ LsNotifyLock(t)
    \/ LsCallback(t)
    \/ LsNotifyDone(t)

InitListeners ==
    /\ LifecycleNew /\ RunnerAt("absent")
    /\ ConnIdle /\ ListenersIdle /\ BreakerIdle /\ RetryIdle /\ ResolverIdle /\ FormsIdle

NextListeners ==
    \/ \E t \in Tasks, s \in LsTargets : LsCall(t, s)
    \/ \E t \in Tasks : LsAcquire(t)
    \/ \E t \in Tasks : LsCommit(t)
    \/ \E t \in Tasks : LsNotifyLock(t)
    \/ \E t \in Tasks : LsCallback(t)
    \/ \E t \in Tasks : LsNotifyDone(t)
    \/ \E l \in ListenerIds : LsAddListener(l)

\* Every task that can take a step of its call eventually takes one.
SpecListeners ==
    InitListeners /\ [][NextListeners]_vars /\ \A t \in Tasks : WF_vars(LsStep(t))


\* The notifications delivered for call c, oldest first.
NotesOf(c) == SelectSeq(notes, LAMBDA n : n.call = c)

\* The listeners of a sequence of notifications.
ListenersOf(ns) == [i \in 1 .. Len(ns) |-> ns[i].listener]

\* C13: each successful transition_to notifies every registered listener
\* exactly once with (old_state, new_state), in the order the listeners were
\* registered; a rejected transition notifies no listener.  While a call is
\* notifying, what it has delivered is the beginning of that order.
C13_ListenersNotifiedInOrder ==
    \A c \in 1 .. Len(callLog) :
        LET e == callLog[c]
            ns == NotesOf(c)
        IN  /\ e.status \in {"pending", "rejected"} => ns = <<>>
            /\ e.status = "committed" =>
                /\ IsPrefix(ListenersOf(ns), listeners)
                /\ IsPrefix(e.regd, listeners)
                /\ (task[e.by].pc = "notify" =>
                        (e.snap = listeners /\ Len(ns) = task[e.by].idx - 1))
            /\ e.status = "ok" =>
                /\ ListenersOf(ns) = e.snap
                /\ IsPrefix(e.regd, e.snap)
                /\ IsPrefix(e.snap, listeners)
            /\ \A i \in 1 .. Len(ns) : ns[i].old = e.old /\ ns[i].new = e.to

\* C13 witness: a call that was rejected, and a call that returned Ok after
\* notifying two listeners registered in the order l2, l1.
C13_Witness ==
    /\ \E c \in 1 .. Len(callLog) : callLog[c].status = "rejected"
    /\ \E c \in 1 .. Len(callLog) :
          callLog[c].status = "ok" /\ ListenersOf(NotesOf(c)) = <<"l2", "l1">>

\* C14: listener callbacks run only after the state lock has been released
\* and the new state committed: a task that notifies holds no guard of the
\* state lock, the state it notifies is committed, a callback's
\* current_state() is held up at most by a writer that is about to commit
\* and release, and the state a callback reads is at least as new as the one
\* it is notified of.
C14_CallbacksOutsideStateLock ==
    /\ \A t \in Tasks :
            task[t].pc \in {"notify_lock", "notify"} =>
                /\ ~Holds(stateLock, t)
                /\ Len(visited) >= callLog[task[t].call].at
                /\ (can_read(stateLock) \/ task[stateLock.writer].pc = "commit")
    /\ \A i \in 1 .. Len(notes) : notes[i].seenAt >= callLog[notes[i].call].at

\* No callback waits for ever: every call that notifies returns.
NotifyingCallsReturn ==
    \A t \in Tasks : (task[t].pc = "notify") ~> (task[t].pc = "idle")

\* C14 witness: a callback that read a state newer than the one it was
\* notified of, committed meanwhile by the other task.
C14_Witness ==
    \E i \in 1 .. Len(notes) :
        /\ notes[i].seenAt > callLog[notes[i].call].at
        /\ notes[i].seen # notes[i].new


(***************************************************************************)
(* CircuitBreaker (resilience.rs, lines 67-172).  The mutex is taken twice *)
(* by a call(): to admit or reject it, and again when the operation has    *)
(* returned; each time the guard is dropped with no await under it.  Time  *)
(* is the clock's reading, in units of which the timeout is a number.      *)
(***************************************************************************)
MaxThreshold == 2
MaxTimeout == 2
MaxTime == 4

\* The variants of ExtensionError.
ErrorKinds ==
    {"InitializationError", "TransportError", "ConfigurationError", "RegistrationError",
     "DependencyError", "ShutdownError", "IoError", "SerializationError",
     "ProtocolError", "TimeoutError", "Unknown"}

\* The kinds of error the wrapped operations of this model return.
OpErrorKinds == {"TransportError", "TimeoutError", "Unknown"}

\* ExtensionError::unknown(msg)
unknown == "Unknown"

\* A test that lets the breaker half-open only after more than the timeout.
timeout_passed(last_failure, t, timeout) == t - last_failure > timeout

\* call, line 112: last_failure.elapsed() >= self.timeout
timeout_elapsed(last_failure, t, timeout) == t - last_failure >= timeout

\* A breaker that lets one trial through: half-open, it rejects.
admit_one_trial(s, t, cfg) ==
    IF s.state = "Open"
    THEN IF s.last_failure_time # NoTime /\ timeout_elapsed(s.last_failure_time, t, cfg.timeout)
         THEN [admitted |-> TRUE,
               state |-> [s EXCEPT !.state = "HalfOpen", !.failure_count = 0,
                                   !.success_count = 0]]
         ELSE [admitted |-> FALSE, state |-> s]
    ELSE IF s.state = "HalfOpen" THEN [admitted |-> FALSE, state |-> s]
    ELSE [admitted |-> TRUE, state |-> s]

\* call, lines 108-127: under the mutex, an Open breaker either half-opens
\* with both counters reset or rejects the call; any other state admits it.
admit(s, t, cfg) ==
    IF s.state = "Open"
    THEN IF s.last_failure_time # NoTime
         THEN IF timeout_elapsed(s.last_failure_time, t, cfg.timeout)
              THEN [admitted |-> TRUE,
                    state |-> [s EXCEPT !.state = "HalfOpen", !.failure_count = 0,
                                        !.success_count = 0]]
              ELSE [admitted |-> FALSE, state |-> s]
         ELSE [admitted |-> FALSE, state |-> s]
    ELSE [admitted |-> TRUE, state |-> s]

\* A breaker that closes only past the threshold.
closes_past(count, threshold) == count > threshold

\* call, line 135: state.success_count >= self.success_threshold
closes_at(count, threshold) == count >= threshold

\* call, lines 130-146: the operation returned Ok.
on_success(s, cfg) ==
    CASE s.state = "HalfOpen" ->
            IF closes_at(s.success_count + 1, cfg.success_threshold)
            THEN [s EXCEPT !.success_count = @ + 1, !.state = "Closed", !.failure_count = 0]
            ELSE [s EXCEPT !.success_count = @ + 1]
      [] s.state = "Closed" -> [s EXCEPT !.failure_count = 0]
      [] OTHER -> s

\* A breaker that opens only past the threshold.
opens_past(count, threshold) == count > threshold

\* call, line 154: state.failure_count >= self.failure_threshold
opens_at(count, threshold) == count >= threshold

\* A failure that leaves last_failure_time as it was.
on_failure_untimed(s, cfg, t) ==
    LET f == [s EXCEPT !.failure_count = @ + 1]
    IN  IF s.state = "HalfOpen" \/ (s.state = "Closed" /\ f.failure_count >= cfg.failure_threshold)
        THEN [f EXCEPT !.state = "Open"]
        ELSE f

\* call, lines 147-165: the operation returned Err at time t.
on_failure(s, cfg, t) ==
    LET f == [s EXCEPT !.failure_count = @ + 1, !.last_failure_time = t]
    IN  CASE s.state = "Closed" ->
                IF opens_at(f.failure_count, cfg.failure_threshold)
                THEN [f EXCEPT !.state = "Open"]
                ELSE f
          [] s.state = "HalfOpen" -> [f EXCEPT !.state = "Open"]
          [] OTHER -> f

\* call() is entered: the call is admitted and the operation invoked, or it
\* is rejected with ExtensionError::unknown("Circuit breaker is open").
CbCall(c) ==
    /\ cbTask[c].pc = "idle"
    /\ LET a == admit(cb, now, cbCfg)
       IN  /\ cb' = a.state
           /\ IF a.admitted
              THEN /\ cbTask' = [cbTask EXCEPT ![c] =
                            [pc |-> "running", pre |-> cb, mid |-> a.state, at |-> now]]
                   /\ UNCHANGED cbLast
              ELSE /\ cbLast' = [call |-> "rejected", kind |-> unknown, invoked |-> FALSE,
                                 pre |-> cb, mid |-> a.state, post |-> a.state,
                                 at |-> now, doneAt |-> now]
                   /\ UNCHANGED cbTask
    /\ UNCHANGED <<cbCfg, now, streak, opErr>>
    /\ UNCHANGED cbRest

\* The operation returns Ok ("ok") or an error of some kind, which call()
\* returns unchanged after updating the breaker.
CbReturn(c, outcome) ==
    /\ cbTask[c].pc = "running"
    /\ cb' = IF outcome = "ok" THEN on_success(cb, cbCfg) ELSE on_failure(cb, cbCfg, now)
    /\ cbLast' = [call |-> IF outcome = "ok" THEN "ok" ELSE "err",
                  kind |-> IF outcome = "ok" THEN "none" ELSE outcome,
                  invoked |-> TRUE,
                  pre |-> cbTask[c].pre, mid |-> cbTask[c].mid, post |-> cb',
                  at |-> cbTask[c].at, doneAt |-> now]
    /\ streak' = IF outcome = "ok" THEN 0
                 ELSE IF cb.state = "Closed" THEN streak + 1 ELSE streak
    /\ opErr' = IF outcome = "ok" THEN opErr ELSE outcome
    /\ cbTask' = [cbTask EXCEPT ![c] = IdleCaller]
    /\ UNCHANGED <<cbCfg, now>>
    /\ UNCHANGED cbRest

\* Time passes.
CbTick ==
    /\ now < MaxTime
    /\ now' = now + 1
    /\ UNCHANGED <<cb, cbCfg, cbTask, cbLast, streak, opErr>>
    /\ UNCHANGED cbRest

\* CircuitBreaker::new(failure_threshold, success_threshold, timeout)
InitBreaker ==
    /\ LifecycleNew /\ RunnerAt("absent")
    /\ ConnIdle /\ ListenersIdle /\ RetryIdle /\ ResolverIdle /\ FormsIdle
    /\ cb = NewBreakerState
    /\ \E f \in 0 .. MaxThreshold, s \in 0 .. MaxThreshold, d \in 0 .. MaxTimeout :
            cbCfg = [failure_threshold |-> f, success_threshold |-> s, timeout |-> d]
    /\ now = 0
    /\ cbTask = [c \in BreakerCallers |-> IdleCaller]
    /\ cbLast = NoCbCall
    /\ streak = 0
    /\ opErr = "none"

\* A call is made only when the one before it has returned.
NoCallInFlight == \A c \in BreakerCallers : cbTask[c].pc = "idle"

\* The breaker called by one caller, one call after another.
NextBreakerSeq ==
    \/ NoCallInFlight /\ CbCall("c1")
    \/ \E o \in {"ok"} \cup OpErrorKinds : CbReturn("c1", o)
    \/ CbTick

SpecBreakerSeq == InitBreaker /\ [][NextBreakerSeq]_vars


\* C15: in Closed, with calls made one after another, a successful call
\* resets failure_count to 0 and leaves the breaker Closed; a failing call
\* increments failure_count and records the failure time, and the breaker
\* becomes Open exactly when the count has reached failure_threshold, which
\* is exactly when that many operations have failed since the last success.
C15_ClosedCounting ==
    /\ (cbLast.call = "ok" /\ cbLast.mid.state = "Closed") =>
            (cbLast.post = [cbLast.mid EXCEPT !.failure_count = 0])
    /\ (cbLast.call = "err" /\ cbLast.mid.state = "Closed") =>
            /\ cbLast.post.failure_count = cbLast.mid.failure_count + 1
            /\ cbLast.post.last_failure_time = cbLast.doneAt
            /\ cbLast.post.success_count = cbLast.mid.success_count
            /\ cbLast.post.state \in {"Closed", "Open"}
            /\ cbLast.post.state = "Open" <=>
                    cbLast.post.failure_count >= cbCfg.failure_threshold
    /\ (NoCallInFlight /\ cb.state = "Closed") =>
            /\ cb.failure_count = streak
            /\ (streak = 0 \/ streak < cbCfg.failure_threshold)
    /\ (NoCallInFlight /\ cbLast.call = "err" /\ cbLast.mid.state = "Closed"
            /\ cb.state = "Open") => streak >= cbCfg.failure_threshold

\* C15 witness: the second of two consecutive failures has opened a breaker
\* whose failure_threshold is 2.
C15_Witness ==
    /\ cbCfg.failure_threshold = 2
    /\ cbLast.call = "err"
    /\ cbLast.mid = [NewBreakerState EXCEPT !.failure_count = 1, !.last_failure_time = 0]
    /\ cbLast.post.state = "Open"
    /\ streak = 2

\* C16: a call made while the breaker is Open and less than timeout has
\* elapsed since the last recorded failure returns the circuit-open error
\* without invoking the operation and leaves every field of the breaker as
\* it was; a call made once timeout has elapsed moves the breaker to HalfOpen
\* with both counters 0 and invokes the operation.  No other call is rejected.
C16_OpenRejectsUntilTimeout ==
    /\ (cbLast.call # "none" /\ cbLast.pre.state = "Open"
            /\ cbLast.at - cbLast.pre.last_failure_time < cbCfg.timeout) =>
            /\ cbLast.call = "rejected"
            /\ cbLast.kind = "Unknown"
            /\ ~cbLast.invoked
            /\ cbLast.post = cbLast.pre
    /\ (cbLast.call # "none" /\ cbLast.pre.state = "Open"
            /\ cbLast.at - cbLast.pre.last_failure_time >= cbCfg.timeout) =>
            /\ cbLast.invoked
            /\ cbLast.mid = [cbLast.pre EXCEPT !.state = "HalfOpen", !.failure_count = 0,
                                               !.success_count = 0]
    /\ cbLast.call = "rejected" => cbLast.pre.state = "Open"
    /\ \A c \in BreakerCallers :
            (cbTask[c].pc = "running" /\ cbTask[c].pre.state = "Open") =>
                /\ cbTask[c].at - cbTask[c].pre.last_failure_time >= cbCfg.timeout
                /\ cbTask[c].mid.state = "HalfOpen"
                /\ cbTask[c].mid.failure_count = 0
                /\ cbTask[c].mid.success_count = 0

\* C16 witness: a breaker with a positive timeout has rejected a call, and
\* the next call, made when the timeout had elapsed, is running half-open.
C16_Witness ==
    /\ cbCfg.timeout > 0
    /\ cbLast.call = "rejected"
    /\ cbTask["c1"].pc = "running"
    /\ cbTask["c1"].pre.state = "Open"
    /\ cb.state = "HalfOpen"

\* C17: in HalfOpen, with calls made one after another, each successful call
\* increments success_count, and the breaker becomes Closed exactly when the
\* count has reached success_threshold and is HalfOpen otherwise; a failing
\* call moves it to Open whatever the counters are.
C17_HalfOpenTrial ==
    /\ (cbLast.call = "ok" /\ cbLast.mid.state = "HalfOpen") =>
            /\ cbLast.post.success_count = cbLast.mid.success_count + 1
            /\ cbLast.post.state \in {"HalfOpen", "Closed"}
            /\ cbLast.post.state = "Closed" <=>
                    cbLast.post.success_count >= cbCfg.success_threshold
            /\ cbLast.post.state = "Closed" => cbLast.post.failure_count = 0
    /\ (cbLast.call = "err" /\ cbLast.mid.state = "HalfOpen") =>
            cbLast.post.state = "Open"
    /\ (NoCallInFlight /\ cb.state = "HalfOpen") =>
            (cb.success_count < cbCfg.success_threshold /\ cb.success_count > 0)

\* C17 witness: the second half-open success has closed a breaker whose
\* success_threshold is 2.
C17_Witness ==
    /\ cbCfg.success_threshold = 2
    /\ cbLast.call = "ok"
    /\ cbLast.mid.state = "HalfOpen"
    /\ cbLast.mid.success_count = 1
    /\ cb.state = "Closed"

\* A half-open failure after a success: straight back to Open.
HalfOpenFailureAfterSuccess ==
    /\ cbLast.call = "err"
    /\ cbLast.mid.state = "HalfOpen"
    /\ cbLast.mid.success_count = 1
    /\ cb.state = "Open"

\* C19: a circuit-breaker rejection carries an error kind that differs from
\* the kind of the errors the wrapped operation itself returns (and so does
\* a retry exhaustion).  Stated of the breaker: the kind of a rejection is not
\* the kind of the last error the operation returned through the breaker.
C19_RejectionKindDistinct ==
    cbLast.call = "rejected" => cbLast.kind # opErr


(***************************************************************************)
(* retry_with_policy (resilience.rs, lines 28-65): the loop that invokes   *)
(* the operation, returns its first success, and sleeps between failures.  *)
(***************************************************************************)
MaxAttempts == 3

\* What an invocation of the operation returns: Ok(value) or Err of a kind.
OpResults ==
    [ok : {TRUE}, value : {1, 2}, kind : {"none"}]
        \cup [ok : {FALSE}, value : {0}, kind : OpErrorKinds]

\* A loop that gives up only past max_attempts.
attempts_exceeded(attempt, max_attempts) == attempt > max_attempts

\* line 44: the guard attempt >= policy.max_attempts
attempts_exhausted(attempt, max_attempts) == attempt >= max_attempts

\* The delays of a policy, in whole seconds, and its exponential_base: values
\* that as_secs_f32, the f32 product and from_secs_f32 carry exactly.
InitialDelays == {1, 2, 4}

MaxDelays == {3, 4}

Bases == {1, 2}

\* rand::random::<f32>() * 0.3, in tenths: a value in [0, 0.3).
Jitters == {0, 1, 2}

\* The policies retry_with_policy is called with.
Policies ==
    [max_attempts : 0 .. MaxAttempts, initial_delay : InitialDelays, max_delay : MaxDelays,
     exponential_base : Bases, jitter : BOOLEAN]

\* A delay that grows without the cap of max_delay.
backoff_uncapped(delay, exponential_base, max_delay) == delay * exponential_base

\* Lines 59-61: (delay.as_secs_f32() * exponential_base).min(max_delay.as_secs_f32())
backoff(delay, exponential_base, max_delay) ==
    IF delay * exponential_base <= max_delay THEN delay * exponential_base ELSE max_delay

\* Lines 50-55: the duration slept, in tenths of a second: delay.mul_f32(1.0 +
\* jitter) when the policy has jitter, delay otherwise.
jittered_delay(delay, jitter, j) ==
    IF jitter THEN delay * (10 + j) ELSE delay * 10

\* retry_with_policy is called with a policy.
InitRetry ==
    /\ LifecycleNew /\ RunnerAt("absent")
    /\ ConnIdle /\ ListenersIdle /\ BreakerIdle /\ ResolverIdle /\ FormsIdle
    /\ policy \in Policies
    /\ retry = [pc |-> "call", attempt |-> 0, invocations |-> 0, sleeps |-> 0,
                delay |-> policy.initial_delay, slept |-> <<>>]
    /\ retryLog = <<>>
    /\ retryRes = NoRetryResult

\* Lines 40-49: attempt += 1, the operation is invoked and returns r; Ok is
\* returned at once, the last allowed failure is wrapped, any other failure
\* leads to the sleep.
RetryAttempt(r) ==
    /\ retry.pc = "call"
    /\ retryLog' = Append(retryLog, r)
    /\ IF r.ok
       THEN /\ retryRes' = [status |-> "ok", value |-> r.value, kind |-> "none",
                            attempts |-> 0, cause |-> "none"]
            /\ retry' = [retry EXCEPT !.pc = "done", !.attempt = @ + 1,
                                      !.invocations = @ + 1]
       ELSE IF attempts_exhausted(retry.attempt + 1, policy.max_attempts)
       THEN /\ retryRes' = [status |-> "err", value |-> 0, kind |-> unknown,
                            attempts |-> policy.max_attempts, cause |-> r.kind]
            /\ retry' = [retry EXCEPT !.pc = "done", !.attempt = @ + 1,
                                      !.invocations = @ + 1]
       ELSE /\ UNCHANGED retryRes
            /\ retry' = [retry EXCEPT !.pc = "sleep", !.attempt = @ + 1,
                                      !.invocations = @ + 1]
    /\ UNCHANGED policy
    /\ UNCHANGED rtRest

\* Lines 50-62: the sleep after a failure that was not the last, for the
\* jittered delay, and then the new delay.
RetrySleep(j) ==
    /\ retry.pc = "sleep"
    /\ retry' = [retry EXCEPT
            !.pc = "call",
            !.sleeps = @ + 1,
            !.slept = Append(@, jittered_delay(retry.delay, policy.jitter, j)),
            !.delay = backoff(@, policy.exponential_base, policy.max_delay)]
    /\ UNCHANGED <<policy, retryLog, retryRes>>
    /\ UNCHANGED rtRest

NextRetry ==
    \/ \E r \in OpResults : RetryAttempt(r)
    \/ \E j \in Jitters : RetrySleep(j)

SpecRetry == InitRetry /\ [][NextRetry]_vars

\* The operation failed at each of the invocations 1 .. n.
AllFailed(n) == \A i \in 1 .. n : ~retryLog[i].ok

\* C18: with max_attempts = N >= 1, an operation that first succeeds at its
\* k-th invocation, k <= N, is invoked exactly k times and that value is
\* returned, with k - 1 sleeps and nothing after; an operation that fails
\* every time is invoked exactly N times and a wrapped error is returned.
\* Until then every invocation so far has failed and fewer than N were made.
C18_RetryInvocations ==
    policy.max_attempts >= 1 =>
        LET k == Len(retryLog)
        IN  /\ retry.invocations = k
            /\ retry.attempt = k
            /\ k <= policy.max_attempts
            /\ retryRes.status = "ok" =>
                    /\ retry.pc = "done"
                    /\ k >= 1 /\ retryLog[k].ok /\ AllFailed(k - 1)
                    /\ retryRes.value = retryLog[k].value
                    /\ retry.sleeps = k - 1
            /\ retryRes.status = "err" =>
                    /\ retry.pc = "done"
                    /\ k = policy.max_attempts /\ AllFailed(k)
                    /\ retryRes.kind = "Unknown"
                    /\ retryRes.cause = retryLog[k].kind
                    /\ retry.sleeps = k - 1
            /\ retryRes.status = "none" =>
                    /\ retry.pc \in {"call", "sleep"}
                    /\ AllFailed(k) /\ k < policy.max_attempts
                    /\ retry.sleeps = (IF retry.pc = "sleep" THEN k - 1 ELSE k)

\* C18 witness: under max_attempts = 3 the operation failed twice and then
\* returned 2, which was returned after exactly 3 invocations.
C18_Witness ==
    /\ policy.max_attempts = 3
    /\ retryRes.status = "ok"
    /\ retryRes.value = 2
    /\ retry.invocations = 3
    /\ retry.sleeps = 2

\* All of max_attempts = 3 invocations failed and the wrapped error returned.
RetryExhausted ==
    /\ policy.max_attempts = 3
    /\ retryRes.status = "err"
    /\ retry.invocations = 3


(***************************************************************************)
(* DependencyResolver (dependency.rs, lines 36-112).  A version is a       *)
(* number, ordered as semver orders versions; an entry of the resolver is  *)
(* [unique_id, version, dependencies], a dependency [unique_id, version].  *)
(***************************************************************************)
MaxExtensions == 3
MaxDeps == 2

\* The unique_ids in use, the versions registered and the floors declared.
Ids == {"a", "b", "c"}

\* A semver::Version is <<major, minor, patch>>.
Versions == {<<0, 9, 0>>, <<1, 0, 0>>}

DepVersions == {<<1, 0, 0>>}

\* The dependency lists an entry may declare: no id twice.
DepLists ==
    {d \in UNION {[1 .. n -> [unique_id : Ids, version : DepVersions]] : n \in 0 .. MaxDeps} :
        \A i, j \in DOMAIN d : i # j => d[i].unique_id # d[j].unique_id}

\* The order of semver::Version: by major, then minor, then patch.
Version_le(a, b) ==
    \/ a[1] < b[1]
    \/ a[1] = b[1] /\ a[2] < b[2]
    \/ a[1] = b[1] /\ a[2] = b[2] /\ a[3] <= b[3]

\* ExtensionDependency::satisfies
satisfies(dep, other_version) == Version_le(dep.version, other_version)

\* self.extensions.iter().find(|e| e.unique_id == id): the index of the first
\* entry registered under id, 0 for None.
find(exts, id) ==
    IF \E i \in DOMAIN exts : exts[i].unique_id = id
    THEN CHOOSE i \in DOMAIN exts :
            /\ exts[i].unique_id = id
            /\ \A j \in 1 .. (i - 1) : exts[j].unique_id # id
    ELSE 0

\* The traversal's state: the output list, the on-stack set, and the error
\* returned ("none" while there is none) with the ids it names.
NewTraversal == [resolved |-> <<>>, visited |-> {}, error |-> "none", about |-> <<>>]

Fail(st, error, about) == [st EXCEPT !.error = error, !.about = about]

RECURSIVE resolve_extension(_, _, _)
RECURSIVE resolve_dependencies(_, _, _, _)
\* A traversal with one set for both "on the stack" and "done": the id stays
\* in visited when the call returns.
resolve_extension_marking(exts, unique_id, st) ==
    IF unique_id \in st.visited THEN Fail(st, "circular", <<unique_id>>)
    ELSE IF unique_id \in Range(st.resolved) THEN st
    ELSE LET entered == [st EXCEPT !.visited = @ \cup {unique_id}]
             e == find(exts, unique_id)
         IN  IF e = 0 THEN entered
             ELSE LET after == resolve_dependencies(exts, exts[e], 1, entered)
                  IN  IF after.error # "none" THEN after
                      ELSE [after EXCEPT !.resolved = Append(@, unique_id)]

\* A traversal that does not look at the output list before it descends.
resolve_extension_revisiting(exts, unique_id, st) ==
    IF unique_id \in st.visited THEN Fail(st, "circular", <<unique_id>>)
    ELSE LET entered == [st EXCEPT !.visited = @ \cup {unique_id}]
             e == find(exts, unique_id)
         IN  IF e = 0 THEN [entered EXCEPT !.visited = @ \ {unique_id}]
             ELSE LET after == resolve_dependencies(exts, exts[e], 1, entered)
                  IN  IF after.error # "none" THEN after
                      ELSE [after EXCEPT !.resolved = Append(@, unique_id),
                                         !.visited = @ \ {unique_id}]

\* resolve_extension, lines 84-110
resolve_extension(exts, unique_id, st) ==
    IF unique_id \in Range(st.resolved) THEN st
    ELSE IF unique_id \in st.visited THEN Fail(st, "circular", <<unique_id>>)
    ELSE LET entered == [st EXCEPT !.visited = @ \cup {unique_id}]
             e == find(exts, unique_id)
         IN  IF e = 0 THEN [entered EXCEPT !.visited = @ \ {unique_id}]
             ELSE LET after == resolve_dependencies(exts, exts[e], 1, entered)
                  IN  IF after.error # "none" THEN after
                      ELSE [after EXCEPT !.resolved = Append(@, unique_id),
                                         !.visited = @ \ {unique_id}]

\* resolve_extension, lines 93-105: the loop over ext.dependencies, from the
\* i-th on.
resolve_dependencies(exts, ext, i, st) ==
    IF i > Len(ext.dependencies) THEN st
    ELSE LET dep == ext.dependencies[i]
             d == find(exts, dep.unique_id)
         IN  IF d = 0 THEN Fail(st, "missing", <<ext.unique_id, dep.unique_id>>)
             ELSE IF ~satisfies(dep, exts[d].version)
             THEN Fail(st, "version_mismatch", <<ext.unique_id, dep.unique_id>>)
             ELSE LET after == resolve_extension(exts, dep.unique_id, st)
                  IN  IF after.error # "none" THEN after
                      ELSE resolve_dependencies(exts, ext, i + 1, after)

\* resolve, lines 71-73: the loop over self.extensions, from the i-th on.
RECURSIVE resolve_from(_, _, _)
resolve_from(exts, i, st) ==
    IF i > Len(exts) THEN st
    ELSE LET after == resolve_extension(exts, exts[i].unique_id, st)
         IN  IF after.error # "none" THEN after
             ELSE resolve_from(exts, i + 1, after)

\* DependencyResolver::resolve
resolve(exts) ==
    LET st == resolve_from(exts, 1, NewTraversal)
    IN  IF st.error = "none"
        THEN [status |-> "ok", order |-> st.resolved, error |-> "none", about |-> <<>>]
        ELSE [status |-> "err", order |-> <<>>, error |-> st.error, about |-> st.about]

\* DependencyResolver::new
InitResolver ==
    /\ LifecycleNew /\ RunnerAt("absent")
    /\ ConnIdle /\ ListenersIdle /\ BreakerIdle /\ RetryIdle /\ FormsIdle
    /\ extensions = <<>>
    /\ resolveRes = NoResolve

\* add_extension(unique_id, version, dependencies)
AddExtension(unique_id, version, dependencies) ==
    /\ Len(extensions) < MaxExtensions
    /\ extensions' = Append(extensions,
            [unique_id |-> unique_id, version |-> version, dependencies |-> dependencies])
    /\ resolveRes' = NoResolve
    /\ UNCHANGED dpRest

\* resolve() is called on the resolver as it is.
Resolve ==
    /\ resolveRes.status = "none"
    /\ resolveRes' = resolve(extensions)
    /\ UNCHANGED extensions
    /\ UNCHANGED dpRest

NextResolver ==
    \/ \E id \in Ids, v \in Versions, deps \in DepLists : AddExtension(id, v, deps)
    \/ Resolve

SpecResolver == InitResolver /\ [][NextResolver]_vars

\* The position of id in a list, 0 if it is not in it.
PositionOf(order, id) ==
    IF id \in Range(order) THEN CHOOSE i \in DOMAIN order : order[i] = id ELSE 0

\* Every dependency an entry declares is in the order, before the entry's id.
DependenciesFirst(exts, order) ==
    \A x \in DOMAIN exts : \A k \in DOMAIN exts[x].dependencies :
        LET X == PositionOf(order, exts[x].unique_id)
            Y == PositionOf(order, exts[x].dependencies[k].unique_id)
        IN  X > 0 /\ Y > 0 /\ Y < X

\* No unique_id is registered twice.
DistinctIds(exts) == \A i, j \in DOMAIN exts : i # j => exts[i].unique_id # exts[j].unique_id

\* C20: whenever resolve() succeeds, for every registered extension X and
\* every dependency Y declared by X, Y appears at an earlier position than X
\* in the returned list.  An entry registered under an id already registered
\* breaks it: its dependencies are never looked at.
C20_DependenciesPrecede ==
    resolveRes.status = "ok" => DependenciesFirst(extensions, resolveRes.order)

\* The same property of resolvers in which no unique_id is registered twice,
\* which have it.
DependenciesPrecedeForDistinctIds ==
    (resolveRes.status = "ok" /\ DistinctIds(extensions)) =>
        DependenciesFirst(extensions, resolveRes.order)

\* A; B -> A; C -> A, B resolves to exactly [A, B, C].
ResolvesTestGraph ==
    /\ Len(extensions) = 3
    /\ extensions[1] = [unique_id |-> "a", version |-> <<1, 0, 0>>, dependencies |-> <<>>]
    /\ extensions[2].unique_id = "b"
    /\ extensions[2].dependencies = <<[unique_id |-> "a", version |-> <<1, 0, 0>>]>>
    /\ extensions[3].unique_id = "c"
    /\ extensions[3].dependencies =
            <<[unique_id |-> "a", version |-> <<1, 0, 0>>],
              [unique_id |-> "b", version |-> <<1, 0, 0>>]>>
    /\ extensions[2].version = <<1, 0, 0>>
    /\ resolveRes.status = "ok"
    /\ resolveRes.order = <<"a", "b", "c">>

\* ---------------------------------------------------------------------------
\* Resolver: the errors resolve() reports
\* ---------------------------------------------------------------------------

\* The edges of the registered dependency graph: every dependency declared by
\* an entry, from the entry's unique_id to the dependency's.
Edges(exts) ==
    UNION {{<<exts[i].unique_id, d.unique_id>> : d \in Range(exts[i].dependencies)} :
            i \in DOMAIN exts}

\* n lies on a cycle of the graph: a path of one or more edges leads from n
\* back to n.
OnCycle(exts, n) ==
    \E len \in 2 .. (Cardinality(Ids) + 1) : \E p \in [1 .. len -> Ids] :
        /\ p[1] = n /\ p[len] = n
        /\ \A i \in 1 .. (len - 1) : <<p[i], p[i + 1]>> \in Edges(exts)

HasCycle(exts) == \E n \in Ids : OnCycle(exts, n)

\* Every declared dependency is registered, and every entry registered under
\* its id has a version the declared floor accepts.
AllPresentAndSatisfied(exts) ==
    \A i \in DOMAIN exts : \A k \in DOMAIN exts[i].dependencies :
        LET dep == exts[i].dependencies[k]
        IN  /\ \E j \in DOMAIN exts : exts[j].unique_id = dep.unique_id
            /\ \A j \in DOMAIN exts :
                    exts[j].unique_id = dep.unique_id => satisfies(dep, exts[j].version)

\* C21: if the registered dependency graph contains a cycle and every declared
\* dependency is present and version-satisfied, resolve() fails with a
\* circular-dependency error that names a node on the cycle, and returns no
\* ordering.  An entry registered under an id already registered breaks it:
\* the cycle its dependencies close is never walked.
C21_CycleReported ==
    (resolveRes.status # "none" /\ HasCycle(extensions) /\ AllPresentAndSatisfied(extensions)) =>
        /\ resolveRes.status = "err"
        /\ resolveRes.error = "circular"
        /\ resolveRes.order = <<>>
        /\ Len(resolveRes.about) = 1
        /\ OnCycle(extensions, resolveRes.about[1])

\* The same property of resolvers in which no unique_id is registered twice,
\* which have it.
CycleReportedForDistinctIds ==
    (/\ resolveRes.status # "none" /\ DistinctIds(extensions)
     /\ HasCycle(extensions) /\ AllPresentAndSatisfied(extensions)) =>
        /\ resolveRes.status = "err"
        /\ resolveRes.error = "circular"
        /\ resolveRes.order = <<>>
        /\ Len(resolveRes.about) = 1
        /\ OnCycle(extensions, resolveRes.about[1])

\* A -> B, B -> A is reported as a cycle.
ReportsTwoNodeCycle ==
    /\ Len(extensions) = 2
    /\ extensions[1].unique_id = "a" /\ extensions[2].unique_id = "b"
    /\ extensions[1].dependencies = <<[unique_id |-> "b", version |-> <<1, 0, 0>>]>>
    /\ extensions[2].dependencies = <<[unique_id |-> "a", version |-> <<1, 0, 0>>]>>
    /\ resolveRes.error = "circular"

\* Some entry declares a dependency on an id that is not registered.
DeclaresMissing(exts, x, y) ==
    /\ <<x, y>> \in Edges(exts)
    /\ \A j \in DOMAIN exts : exts[j].unique_id # y

\* C22: if any registered extension declares a dependency whose unique_id is
\* not registered, resolve() fails with a missing-dependency error naming
\* both the dependent and the missing id, whatever the registration order.
C22_MissingReported ==
    (resolveRes.status # "none" /\ \E x, y \in Ids : DeclaresMissing(extensions, x, y)) =>
        /\ resolveRes.status = "err"
        /\ resolveRes.error = "missing"
        /\ Len(resolveRes.about) = 2
        /\ DeclaresMissing(extensions, resolveRes.about[1], resolveRes.about[2])

\* What the code has of it: with no unique_id registered twice, a missing
\* dependency makes resolve() fail with the first error its traversal meets,
\* and a missing-dependency error names a dependent and an id it declares
\* that is not registered.
MissingFailsForDistinctIds ==
    /\ (/\ resolveRes.status # "none" /\ DistinctIds(extensions)
        /\ \E x, y \in Ids : DeclaresMissing(extensions, x, y)) =>
            resolveRes.status = "err"
    /\ resolveRes.error = "missing" =>
            /\ Len(resolveRes.about) = 2
            /\ DeclaresMissing(extensions, resolveRes.about[1], resolveRes.about[2])

\* Some entry registered under x declares a dependency on y whose floor
\* exceeds the version y is registered with (the first entry under y).
FloorExceeds(exts, x, y) ==
    \E i \in DOMAIN exts : \E k \in DOMAIN exts[i].dependencies :
        LET dep == exts[i].dependencies[k]
        IN  /\ exts[i].unique_id = x /\ dep.unique_id = y
            /\ find(exts, y) # 0
            /\ ~satisfies(dep, exts[find(exts, y)].version)

\* The versions of test_dependency_satisfies.
TestVersions == {<<0, 9, 0>>, <<1, 0, 0>>, <<1, 1, 0>>, <<2, 0, 0>>}

\* A floor accepts exactly the versions at or above it.
SatisfiesIsFloor ==
    /\ \A f, v \in TestVersions :
            satisfies([unique_id |-> "a", version |-> f], v) <=> Version_le(f, v)
    /\ {v \in TestVersions : satisfies([unique_id |-> "a", version |-> <<1, 0, 0>>], v)} =
            {<<1, 0, 0>>, <<1, 1, 0>>, <<2, 0, 0>>}

\* C23: satisfies(v) holds iff the declared minimum <= v, and resolve() fails
\* with a version-mismatch error iff some declared dependency's minimum
\* exceeds the registered version of that dependency.
C23_VersionFloor ==
    /\ SatisfiesIsFloor
    /\ resolveRes.status # "none" =>
            ((resolveRes.status = "err" /\ resolveRes.error = "version_mismatch") <=>
                \E x, y \in Ids : FloorExceeds(extensions, x, y))

\* What the code has of it: a version-mismatch error names a dependent and a
\* dependency whose floor exceeds the registered version, and with no
\* unique_id registered twice such a floor makes resolve() fail with the
\* first error its traversal meets.
VersionMismatchForDistinctIds ==
    /\ SatisfiesIsFloor
    /\ resolveRes.error = "version_mismatch" =>
            /\ Len(resolveRes.about) = 2
            /\ FloorExceeds(extensions, resolveRes.about[1], resolveRes.about[2])
    /\ (/\ resolveRes.status # "none" /\ DistinctIds(extensions)
        /\ \E x, y \in Ids : FloorExceeds(extensions, x, y)) =>
            resolveRes.status = "err"

\* ---------------------------------------------------------------------------
\* Transport header: new, write_response and from_stream
\* ---------------------------------------------------------------------------

\* The request ids, and the versions and sizes, a caller hands to new: zero,
\* the largest, numbers whose bytes all differ, and the sizes around the
\* point where 13 + content_size + variable_header_size leaves the u32 range.
RequestIds == {<<0, 0, 0, 0>>, <<0, 0, 0, 258>>, <<258, 772, 1286, 1800>>,
               <<65535, 65535, 65535, 65535>>}

U32Values == {<<0, 0>>, <<0, 1>>, <<258, 772>>, <<65535, 65522>>, <<65535, 65523>>,
              <<65535, 65535>>}

CodecStatuses == {0, STATUS_REQRES, STATUS_HANDSHAKE, 255}

InitCodec ==
    /\ LifecycleNew /\ RunnerAt("absent")
    /\ ConnIdle /\ ListenersIdle /\ BreakerIdle /\ RetryIdle /\ ResolverIdle
    /\ EnvelopeIdle /\ BuilderIdle
    /\ \E id \in RequestIds, st \in CodecStatuses, v \in U32Values,
          cs \in U32Values, vhs \in U32Values :
            codec = [NoCodec EXCEPT !.pc = "args", !.request_id = id, !.status = st,
                                    !.version = v, !.content_size = cs,
                                    !.variable_header_size = vhs]

\* TransportTcpHeader::new(request_id, status, version, content_size,
\* variable_header_size)
CodecNew ==
    /\ codec.pc = "args"
    /\ codec' =
         IF new_panics(codec.content_size, codec.variable_header_size)
         THEN [codec EXCEPT !.pc = "panicked"]
         ELSE [codec EXCEPT !.pc = "made",
                            !.header = TransportTcpHeader_new(codec.request_id,
                                codec.status, codec.version, codec.content_size,
                                codec.variable_header_size)]
    /\ UNCHANGED cdRest

\* header.write_response(stream, content), the content being the
\* content_size bytes the header was made for.
CodecWrite ==
    /\ codec.pc = "made"
    /\ codec' = [codec EXCEPT !.pc = "written",
                              !.wire = write_response(codec.header, "content",
                                                      as_usize(codec.content_size))]
    /\ UNCHANGED cdRest

\* TransportTcpHeader::from_stream on the bytes written.
CodecRead ==
    /\ codec.pc = "written"
    /\ codec' = [codec EXCEPT !.pc = "read", !.parsed = from_stream(codec.wire.header)]
    /\ UNCHANGED cdRest

NextCodec == CodecNew \/ CodecWrite \/ CodecRead

SpecCodec == InitCodec /\ [][NextCodec]_vars

\* bytes are the big-endian bytes of the number x.
BigEndian(bytes, x) ==
    /\ Len(bytes) = 2 * Len(x)
    /\ \A i \in DOMAIN bytes : bytes[i] \in 0 .. 255
    /\ \A j \in DOMAIN x : bytes[2 * j - 1] * 256 + bytes[2 * j] = x[j]

\* C24: writing a header with write_response and decoding the same bytes with
\* from_stream yields a header with identical message_length, request_id,
\* status, version and variable_header_size, for every request_id (0 and
\* u64::MAX included), version and variable_header_size; the 23 header bytes
\* are the marker 'ES' followed by the fields big-endian in that order.
C24_HeaderRoundTrip ==
    codec.pc = "read" =>
        /\ codec.parsed.ok
        /\ codec.parsed.header = codec.header
        /\ codec.header.request_id = codec.request_id
        /\ codec.header.version = codec.version
        /\ codec.header.variable_header_size = codec.variable_header_size
        /\ LET b == codec.wire.header
           IN  /\ Len(b) = 23
               /\ SubSeq(b, 1, 2) = <<69, 83>>
               /\ BigEndian(SubSeq(b, 3, 6), codec.header.message_length)
               /\ BigEndian(SubSeq(b, 7, 14), codec.header.request_id)
               /\ b[15] = codec.header.status
               /\ BigEndian(SubSeq(b, 16, 19), codec.header.version)
               /\ BigEndian(SubSeq(b, 20, 23), codec.header.variable_header_size)

\* A header of request_id u64::MAX has made the round trip.
C24_Witness ==
    /\ codec.pc = "read"
    /\ codec.request_id = <<65535, 65535, 65535, 65535>>
    /\ codec.version = <<258, 772>>
    /\ codec.parsed.ok
    /\ codec.parsed.header.request_id = <<65535, 65535, 65535, 65535>>

\* content_size + 13 + variable_header_size is at most u32::MAX: the high
\* limbs and the carry of the low ones stay below 2^16.
SumFitsU32(cs, vhs) ==
    LET hi == cs[1] + vhs[1]
        lo == cs[2] + vhs[2] + 13
    IN  hi + (lo \div Limb) < Limb

\* C25: every TransportTcpHeader satisfies message_length == content_size + 8
\* + 1 + 4 + variable_header_size: new produces such a header for all u32
\* content_size and variable_header_size, without wrap-around or abort when
\* the sum exceeds the u32 range, and every frame written carries a
\* message_length equal to 13 + variable_header_size + the number of content
\* bytes written.
C25_MessageLengthInvariant ==
    /\ codec.pc # "panicked"
    /\ codec.pc \in {"made", "written", "read"} =>
            as_usize(codec.header.message_length) =
                add(add(as_usize(codec.content_size), wide(13, 4)),
                    as_usize(codec.variable_header_size))
    /\ codec.pc \in {"written", "read"} =>
            as_usize(from_be_bytes(SubSeq(codec.wire.header, 3, 6))) =
                add(add(wide(13, 4), as_usize(codec.header.variable_header_size)),
                    codec.wire.len)

\* What the code has of it: new returns exactly when the sum fits a u32, the
\* header it returns and the frame written from it then carry that sum.
MessageLengthWhenNewReturns ==
    /\ codec.pc = "panicked" =>
            ~SumFitsU32(codec.content_size, codec.variable_header_size)
    /\ codec.pc \in {"made", "written", "read"} =>
            /\ SumFitsU32(codec.content_size, codec.variable_header_size)
            /\ as_usize(codec.header.message_length) =
                add(add(as_usize(codec.content_size), wide(13, 4)),
                    as_usize(codec.variable_header_size))
    /\ codec.pc \in {"written", "read"} =>
            as_usize(from_be_bytes(SubSeq(codec.wire.header, 3, 6))) =
                add(add(wide(13, 4), as_usize(codec.header.variable_header_size)),
                    codec.wire.len)

\* new(.., u32::MAX - 12, 0) aborts.
NewAbortsPastU32 ==
    /\ codec.pc = "panicked"
    /\ codec.content_size = <<65535, 65523>>
    /\ codec.variable_header_size = <<0, 0>>

\* The frames Host::handle_connection writes carry the length of their
\* content plus 13.
HostFramesCarryLength ==
    hostOut.response.framed =>
        as_usize(from_be_bytes(SubSeq(hostOut.response.header, 3, 6))) =
            add(wide(13, 4), hostOut.response.len)

\* ---------------------------------------------------------------------------
\* Transport header: framing errors and status bytes at the Host
\* ---------------------------------------------------------------------------

\* The stream carries the marker 'ES' and all 23 header bytes.
StreamHasHeader(bytes) == Len(bytes) >= 23 /\ bytes[1] = 69 /\ bytes[2] = 83

\* The error values from_stream returns.
FramingErrors ==
    {"Unable to parse prefix", "Invalid header prefix", "Unable to parse size",
     "Cannot parse request_id", "Unable to parse status", "Unable to parse version",
     "Unable to parse variable_header_size"}

\* C26: decoding a byte stream whose first two bytes are not exactly 'ES', or
\* that ends before all 23 header bytes are available, returns a framing
\* error value (never a header), and that failure affects only the
\* connection it was read from: the handler writes nothing, returns to the
\* accept loop, and nothing outside the connection changes.
C26_FramingErrorIsLocal ==
    /\ [](~StreamHasHeader(req.bytes) =>
            /\ ~from_stream(req.bytes).ok
            /\ from_stream(req.bytes).error \in FramingErrors
            /\ hostOut.result # "none" =>
                    /\ hostOut.result \in {"ok", "err_clone"}
                    /\ hostOut.response = NoResponse)
    /\ [][(hostOut' # hostOut /\ ~StreamHasHeader(req.bytes)) =>
            UNCHANGED <<hcRest, req, runnerOut>>]_vars

\* The Host has handled a stream of 23 bytes and more under the marker 'ET'.
C26_Witness ==
    /\ Len(req.bytes) >= 23
    /\ SubSeq(req.bytes, 1, 2) = <<69, 84>>
    /\ hostOut.result = "ok"

\* The Host has handled a stream that ends inside the header.
HandlesTruncatedHeader ==
    /\ Len(req.bytes) = 22
    /\ SubSeq(req.bytes, 1, 2) = <<69, 83>>
    /\ hostOut.result = "ok"

\* The flag bits (bits 0 to 3) set in a status byte.
FlagBits(b) == {k \in 0 .. 3 : (b \div (2 ^ k)) % 2 = 1}

\* The status predicates a header satisfies.
Holding(h) ==
    {p \in {"handshake", "request_response", "error", "compressed"} :
        CASE p = "handshake" -> is_handshake(h)
          [] p = "request_response" -> is_request_response(h)
          [] p = "error" -> is_error(h)
          [] p = "compressed" -> is_compressed(h)}

\* C27: for every status byte 0..255 at most one of is_handshake,
\* is_request_response, is_error, is_compressed is true; exactly one is true
\* iff the byte is 8, 1, 2 or 4 respectively; a byte with two or more flag
\* bits set satisfies none of them and is handled as an unknown status (the
\* Host writes no response).
C27_StatusPredicatesExclusive ==
    LET parsed == from_stream(req.bytes)
    IN  parsed.ok =>
            LET h == parsed.header
            IN  /\ Cardinality(Holding(h)) <= 1
                /\ is_handshake(h) <=> h.status = 8
                /\ is_request_response(h) <=> h.status = 1
                /\ is_error(h) <=> h.status = 2
                /\ is_compressed(h) <=> h.status = 4
                /\ Cardinality(Holding(h)) = 1 <=> h.status \in {8, 1, 2, 4}
                /\ Cardinality(FlagBits(h.status)) >= 2 =>
                        /\ Holding(h) = {}
                        /\ hostOut.result = "ok" => hostOut.response = NoResponse

\* The Host has handled a header whose status carries the handshake and the
\* request/response bits.
C27_Witness ==
    /\ from_stream(req.bytes).ok
    /\ from_stream(req.bytes).header.status = 9
    /\ hostOut.result = "ok"

\* ---------------------------------------------------------------------------
\* Request envelope (src/interface.rs)
\* ---------------------------------------------------------------------------

\* Longest payload, in characters, of a Request that is serialized.
MaxPayload == 2

\* A String is the sequence of its characters' code points: 'a', e-acute and
\* the euro sign take one, two and three bytes in UTF-8.
Chars == {97, 233, 8364}

Strings == UNION {[1 .. n -> Chars] : n \in 0 .. MaxPayload}

Variants == {"RequestResponse", "TransportError", "Compress", "Handshake"}

\* A numbering of the variants in declaration order.
request_index(variant) ==
    CASE variant = "RequestResponse" -> 1
      [] variant = "TransportError" -> 2
      [] variant = "Compress" -> 3
      [] variant = "Handshake" -> 4

\* impl From<&Request> for u8
request_type(variant) ==
    CASE variant = "RequestResponse" -> 1
      [] variant = "TransportError" -> 2
      [] variant = "Compress" -> 4
      [] variant = "Handshake" -> 8

\* The UTF-8 bytes of one character.
char_bytes(c) ==
    IF c < 128 THEN <<c>>
    ELSE IF c < 2048 THEN <<192 + (c \div 64), 128 + (c % 64)>>
    ELSE <<224 + (c \div 4096), 128 + ((c \div 64) % 64), 128 + (c % 64)>>

\* str::as_bytes
RECURSIVE as_bytes(_)
as_bytes(str) ==
    IF str = <<>> THEN <<>> ELSE char_bytes(str[1]) \o as_bytes(Tail(str))

is_continuation(b) == b >= 128 /\ b < 192

\* String::from_utf8: the characters of well-formed UTF-8 of up to three
\* bytes a character, an error for anything else.
RECURSIVE from_utf8(_)
from_utf8(b) ==
    IF b = <<>> THEN [ok |-> TRUE, str |-> <<>>]
    ELSE LET n == IF b[1] < 128 THEN 1
                  ELSE IF b[1] >= 194 /\ b[1] < 224 THEN 2
                  ELSE IF b[1] >= 224 /\ b[1] < 240 THEN 3
                  ELSE 0
             c == IF n = 1 THEN b[1]
                  ELSE IF n = 2 /\ Len(b) >= 2 THEN (b[1] - 192) * 64 + (b[2] - 128)
                  ELSE IF n = 3 /\ Len(b) >= 3
                  THEN (b[1] - 224) * 4096 + (b[2] - 128) * 64 + (b[3] - 128)
                  ELSE 0
             well == /\ n > 0 /\ Len(b) >= n
                     /\ \A i \in 2 .. n : is_continuation(b[i])
                     /\ n = 3 => (c >= 2048 /\ ~(c >= 55296 /\ c < 57344))
         IN  IF ~well THEN [ok |-> FALSE, str |-> <<>>]
             ELSE LET rest == from_utf8(SubSeq(b, n + 1, Len(b)))
                  IN  IF rest.ok THEN [ok |-> TRUE, str |-> <<c>> \o rest.str]
                      ELSE rest

\* Request::serialize into a buffer whose writes go as w says: the bytes
\* written and the value returned.
serialize(request, w) ==
    LET content_bytes == as_bytes(request.content)
    IN  IF w = "err_tag" THEN [buf |-> <<>>, ok |-> FALSE, n |-> 0]
        ELSE IF w = "err_content"
        THEN [buf |-> <<request_type(request.variant)>>, ok |-> FALSE, n |-> 0]
        ELSE [buf |-> <<request_type(request.variant)>> \o content_bytes,
              ok |-> TRUE, n |-> 1 + Len(content_bytes)]

DecodeErr(msg) == [ok |-> FALSE, request |-> NoRequest, error |-> msg]

\* Request::deserialize
deserialize(buf) ==
    IF Len(buf) < 1 THEN DecodeErr("UnexpectedEof")
    ELSE LET content == from_utf8(Tail(buf))
         IN  IF ~content.ok THEN DecodeErr("InvalidData: utf8")
             ELSE IF buf[1] \in {1, 2, 4, 8}
             THEN [ok |-> TRUE,
                   request |-> [variant |-> CASE buf[1] = 1 -> "RequestResponse"
                                              [] buf[1] = 2 -> "TransportError"
                                              [] buf[1] = 4 -> "Compress"
                                              [] buf[1] = 8 -> "Handshake",
                                content |-> content.str],
                   error |-> "none"]
             ELSE DecodeErr("Invalid request type")

\* What a peer may send instead of a serialized Request: nothing, or a tag
\* byte followed by well-formed or malformed UTF-8.
PeerTags == {0, 1, 2, 3, 4, 8, 9, 255}

PeerPayloads == {<<>>, <<97>>, <<195, 169>>, <<195>>, <<255>>, <<97, 128>>}

PeerInputs == {<<>>} \cup {<<t>> \o pl : t \in PeerTags, pl \in PeerPayloads}

InitEnvelope ==
    /\ LifecycleNew /\ RunnerAt("absent")
    /\ ConnIdle /\ ListenersIdle /\ BreakerIdle /\ RetryIdle /\ ResolverIdle
    /\ CodecIdle /\ BuilderIdle
    /\ \/ \E v \in Variants, str \in Strings :
            envelope = [NoEnvelope EXCEPT !.pc = "made", !.origin = "request",
                                          !.request = [variant |-> v, content |-> str]]
       \/ \E input \in PeerInputs :
            envelope = [NoEnvelope EXCEPT !.pc = "received", !.origin = "peer",
                                          !.buf = input]

\* request.serialize(&mut buf)
Serialize(w) ==
    /\ envelope.pc = "made"
    /\ LET out == serialize(envelope.request, w)
       IN  envelope' = [envelope EXCEPT !.pc = IF out.ok THEN "serialized" ELSE "failed",
                                        !.buf = out.buf,
                                        !.wrote = [ok |-> out.ok, n |-> out.n]]
    /\ UNCHANGED evRest

\* Request::deserialize(&mut buf)
Deserialize ==
    /\ envelope.pc \in {"serialized", "received"}
    /\ envelope' = [envelope EXCEPT !.pc = "deserialized",
                                    !.decoded = deserialize(envelope.buf)]
    /\ UNCHANGED evRest

NextEnvelope ==
    \/ \E w \in {"ok", "err_tag", "err_content"} : Serialize(w)
    \/ Deserialize

SpecEnvelope == InitEnvelope /\ [][NextEnvelope]_vars

\* The tag bytes of the four variants.
TagOf(variant) ==
    IF variant = "RequestResponse" THEN 1
    ELSE IF variant = "TransportError" THEN 2
    ELSE IF variant = "Compress" THEN 4
    ELSE 8

\* The number of UTF-8 bytes of a string.
RECURSIVE Utf8Len(_)
Utf8Len(str) ==
    IF str = <<>> THEN 0
    ELSE (IF str[1] < 128 THEN 1 ELSE IF str[1] < 2048 THEN 2 ELSE 3) + Utf8Len(Tail(str))

\* C28: serialize writes one tag byte (1=RequestResponse, 2=TransportError,
\* 4=Compress, 8=Handshake) followed by the UTF-8 payload and returns
\* 1 + payload length; deserialize(serialize(r)) equals r for every variant
\* and payload; a leading tag byte outside {1,2,4,8}, or an empty input, is a
\* decode error.
C28_EnvelopeRoundTrip ==
    /\ (envelope.origin = "request" /\ envelope.pc \in {"serialized", "deserialized"}) =>
            /\ envelope.wrote.ok
            /\ envelope.buf[1] = TagOf(envelope.request.variant)
            /\ Len(envelope.buf) = 1 + Utf8Len(envelope.request.content)
            /\ envelope.wrote.n = 1 + Utf8Len(envelope.request.content)
            /\ from_utf8(Tail(envelope.buf)) = [ok |-> TRUE, str |-> envelope.request.content]
    /\ (envelope.origin = "request" /\ envelope.pc = "deserialized") =>
            /\ envelope.decoded.ok
            /\ envelope.decoded.request = envelope.request
    /\ (/\ envelope.origin = "peer" /\ envelope.pc = "deserialized"
        /\ (envelope.buf = <<>> \/ envelope.buf[1] \notin {1, 2, 4, 8})) =>
            ~envelope.decoded.ok

\* A Compress request with a two-byte and a three-byte character has made the
\* round trip.
C28_Witness ==
    /\ envelope.pc = "deserialized"
    /\ envelope.origin = "request"
    /\ envelope.request = [variant |-> "Compress", content |-> <<233, 8364>>]
    /\ envelope.buf = <<4, 195, 169, 226, 130, 172>>
    /\ envelope.decoded.ok

\* A tag byte of 3 from a peer has been refused.
RefusesUnknownTag ==
    /\ envelope.pc = "deserialized"
    /\ envelope.buf = <<3, 97>>
    /\ envelope.decoded.error = "Invalid request type"

\* ---------------------------------------------------------------------------
\* Registration and the resilience layer
\* ---------------------------------------------------------------------------

\* The outcomes in which the registration send itself failed.
FailedSends == {"connect_timeout", "connect_failed", "send_failed", "read_failed"}

\* C29: the registration step of run() is executed under the resilience
\* layer: a failed registration send is retried before it is given up as
\* best-effort, so that after a first failed send run() is still at the
\* registration step, about to make another attempt.
C29_RegistrationRetried ==
    [][(regOutcome = "none" /\ regOutcome' \in FailedSends) => pc' = "register"]_vars

\* What the code does: one exchange, and run() moves on whatever came of it.
RegistrationAttemptedOnce ==
    [][/\ (regOutcome = "none" /\ regOutcome' # "none") => pc' = "to_running"
       /\ regOutcome # "none" => regOutcome' = regOutcome]_vars

\* ---------------------------------------------------------------------------
\* ExtensionBuilder (src/extension/builder.rs)
\* ---------------------------------------------------------------------------

\* The names, unique_ids and versions builders and extensions are given.
BuilderNames == {"test", "wrong-name"}

BuilderIds == {"", "test-ext", "other-ext"}

BuilderVersions == {"1.0.0", "0.1.0"}

\* A comparison that never finds a difference.
no_mismatch(provided, own) == FALSE

\* build, lines 88, 96 and 104: provided != self.field
mismatch(provided, own) == provided # own

\* ExtensionBuilder::new(name)
BuilderNew(name) ==
    /\ builder.pc = "idle"
    /\ builder' = [builder EXCEPT !.pc = "building", !.name = name, !.unique_id = "",
                                  !.version = "1.0.0", !.thread_pool = FALSE]
    /\ UNCHANGED bdRest

\* .unique_id(id)
BuilderUniqueId(id) ==
    /\ builder.pc = "building"
    /\ builder.unique_id # id
    /\ builder' = [builder EXCEPT !.unique_id = id]
    /\ UNCHANGED bdRest

\* .version(version)
BuilderVersion(version) ==
    /\ builder.pc = "building"
    /\ builder.version # version
    /\ builder' = [builder EXCEPT !.version = version]
    /\ UNCHANGED bdRest

\* .thread_pool(pool)
BuilderThreadPool ==
    /\ builder.pc = "building"
    /\ ~builder.thread_pool
    /\ builder' = [builder EXCEPT !.thread_pool = TRUE]
    /\ UNCHANGED bdRest

\* build(extension): the four checks in order, then the transport client,
\* the runtime (created here unless one was given; expect() panics when
\* Runtime::new() fails), the context (it is given both the client and the
\* pool, so its build() returns Ok) and ExtensionRunner::new, which is Ok.
build(b, extension, runtime) ==
    IF b.unique_id = "" THEN [result |-> "err", error |-> "Unique ID is required"]
    ELSE IF mismatch(extension.name, b.name)
    THEN [result |-> "err", error |-> "Extension name mismatch"]
    ELSE IF mismatch(extension.unique_id, b.unique_id)
    THEN [result |-> "err", error |-> "Extension ID mismatch"]
    ELSE IF mismatch(extension.version, b.version)
    THEN [result |-> "err", error |-> "Extension version mismatch"]
    ELSE IF ~b.thread_pool /\ runtime = "err"
    THEN [result |-> "panicked", error |-> "Failed to create runtime"]
    ELSE [result |-> "runner", error |-> "none"]

Build(extension, runtime) ==
    /\ builder.pc = "building"
    /\ LET out == build(builder, extension, runtime)
       IN  builder' = [builder EXCEPT !.pc = "built", !.extension = extension,
                                      !.result = out.result, !.error = out.error]
    /\ UNCHANGED bdRest

\* hello_extension.rs, lines 86-95: build(extension)? and then
\* runner.run().await, which needs the runner.
BuilderRun ==
    /\ builder.pc = "built"
    /\ builder.result = "runner"
    /\ builder' = [builder EXCEPT !.pc = "running"]
    /\ UNCHANGED bdRest

InitBuilder ==
    /\ LifecycleNew /\ RunnerAt("absent")
    /\ ConnIdle /\ ListenersIdle /\ BreakerIdle /\ RetryIdle /\ ResolverIdle
    /\ CodecIdle /\ EnvelopeIdle
    /\ builder = NoBuilder

NextBuilder ==
    \/ \E name \in BuilderNames : BuilderNew(name)
    \/ \E id \in BuilderIds : BuilderUniqueId(id)
    \/ \E v \in BuilderVersions : BuilderVersion(v)
    \/ BuilderThreadPool
    \/ \E n \in BuilderNames, id \in BuilderIds, v \in BuilderVersions,
          runtime \in {"ok", "err"} :
            Build([name |-> n, unique_id |-> id, version |-> v], runtime)
    \/ BuilderRun

SpecBuilder == InitBuilder /\ [][NextBuilder]_vars

\* The builder's unique_id is not empty and its name, unique_id and version
\* are the extension's own.
BuilderMatches ==
    /\ builder.unique_id # ""
    /\ builder.name = builder.extension.name
    /\ builder.unique_id = builder.extension.unique_id
    /\ builder.version = builder.extension.version

RunsMatchingBuild ==
    /\ builder.pc = "running"
    /\ builder.name = "test" /\ builder.unique_id = "test-ext" /\ builder.version = "1.0.0"

\* ---------------------------------------------------------------------------
\* Lifecycle: no way back
\* ---------------------------------------------------------------------------

\* The order Created < Initializing < Initialized < Running < Stopping <
\* Stopped.
Rank(st) ==
    CASE st = "Created" -> 0
      [] st = "Initializing" -> 1
      [] st = "Initialized" -> 2
      [] st = "Running" -> 3
      [] st = "Stopping" -> 4
      [] st = "Stopped" -> 5

C40_BindFailureLeavesRunning ==
    runResult = "err_bind" =>
        /\ pc = "done"
        /\ opAt.bind = {"Running"}
        /\ state = "Running"
        /\ ~is_terminal(state)
        /\ state \notin {"Stopping", "Failed"}
        /\ srv = "absent"
        /\ conns = <<>>
        /\ extRes.initialize = "ok"
        /\ opAt.initialize = {"Initializing"}
        /\ extRes.shutdown = "none"
        /\ opAt.shutdown = {}

\* C40 witness: bind has failed after the lifecycle reached Running.
C40_Witness ==
    /\ runResult = "err_bind"
    /\ pc = "done"
    /\ visited = <<"Created", "Initializing", "Initialized", "Running">>
    /\ extRes.initialize = "ok"


\* ---------------------------------------------------------------------------
\* Resolver: what a successful resolve() returns
\* ---------------------------------------------------------------------------

\* C34: for every acyclic dependency graph in which each declared dependency
\* is registered and version-satisfied, resolve() succeeds: a node reached
\* through two branches, or one that is both a top-level entry and a
\* dependency, is not reported as a cycle.
C34_NoFalseCycle ==
    (/\ resolveRes.status # "none"
     /\ ~HasCycle(extensions)
     /\ AllPresentAndSatisfied(extensions)) =>
        /\ resolveRes.status = "ok"
        /\ resolveRes.error = "none"

\* C34 witness: the diamond c -> b, a; b -> a with c registered first: a is
\* reached through b and again from c, and is a top-level entry as well.
C34_Witness ==
    /\ Len(extensions) = 3
    /\ extensions[1].unique_id = "c"
    /\ [k \in DOMAIN extensions[1].dependencies |-> extensions[1].dependencies[k].unique_id]
            = <<"b", "a">>
    /\ extensions[2].unique_id = "b"
    /\ [k \in DOMAIN extensions[2].dependencies |-> extensions[2].dependencies[k].unique_id]
            = <<"a">>
    /\ extensions[3].unique_id = "a"
    /\ extensions[3].dependencies = <<>>
    /\ resolveRes.status = "ok"
    /\ resolveRes.order = <<"a", "b", "c">>

\* The unique_ids registered.
RegisteredIds(exts) == {exts[i].unique_id : i \in DOMAIN exts}

\* C35: whenever resolve() succeeds, the returned list holds every registered
\* unique_id exactly once and nothing else, also when an extension is a
\* dependency of several others; resolve() leaves the resolver as it was, so
\* the list is the one another call returns.
C35_EachIdOnce ==
    /\ [](resolveRes.status = "ok" =>
            /\ Range(resolveRes.order) = RegisteredIds(extensions)
            /\ Len(resolveRes.order) = Cardinality(RegisteredIds(extensions))
            /\ resolveRes = resolve(extensions))
    /\ [][(resolveRes.status = "none" /\ resolveRes'.status # "none") =>
            extensions' = extensions]_vars

\* C35 witness: a is a dependency of both b and c, and the list names it once.
C35_Witness ==
    /\ Len(extensions) = 3
    /\ extensions[1].unique_id = "b"
    /\ extensions[2].unique_id = "a"
    /\ extensions[3].unique_id = "c"
    /\ "a" \in {d.unique_id : d \in Range(extensions[1].dependencies)}
    /\ "a" \in {d.unique_id : d \in Range(extensions[3].dependencies)}
    /\ resolveRes.status = "ok"
    /\ resolveRes.order = <<"a", "b", "c">>


\* ---------------------------------------------------------------------------
\* Retry: the attempt count of the wrapped error
\* ---------------------------------------------------------------------------

\* C32: on exhaustion the wrapped error names an attempt count equal to the
\* number of times the operation was invoked, and the operation is never
\* invoked more than max_attempts times, for every max_attempts including 0.
\* max_attempts = 0 breaks both: the operation is invoked once, and the error
\* names 0 attempts.
C32_AttemptCount ==
    /\ retryRes.status = "err" => retryRes.attempts = retry.invocations
    /\ retry.invocations <= policy.max_attempts

\* What the code has of it: for max_attempts >= 1 the count named is the
\* number of invocations made and no more than max_attempts are made; for
\* max_attempts = 0 exactly one invocation is made and the error names 0.
AttemptCountFromOne ==
    /\ policy.max_attempts >= 1 =>
            /\ retryRes.status = "err" => retryRes.attempts = retry.invocations
            /\ retry.invocations <= policy.max_attempts
    /\ policy.max_attempts = 0 =>
            /\ retry.invocations <= 1
            /\ retryRes.status = "err" => (retryRes.attempts = 0 /\ retry.invocations = 1)

\* Under max_attempts = 0 the operation was invoked once and failed.
ZeroAttemptsInvokesOnce ==
    /\ policy.max_attempts = 0
    /\ retryRes.status = "err"
    /\ retry.invocations = 1
    /\ retryRes.attempts = 0


\* ---------------------------------------------------------------------------
\* Retry: the backoff
\* ---------------------------------------------------------------------------

\* The delay tracked after n sleeps: initial_delay, and then each time the
\* smaller of delay * exponential_base and max_delay.  It does not depend on
\* the policy's jitter.
RECURSIVE TrackedDelay(_)
TrackedDelay(n) ==
    IF n = 0 THEN policy.initial_delay
    ELSE LET grown == TrackedDelay(n - 1) * policy.exponential_base
         IN  IF grown < policy.max_delay THEN grown ELSE policy.max_delay

\* C33: the tracked delay is initial_delay before the first sleep and after
\* each failed, non-final attempt becomes min(delay * exponential_base,
\* max_delay), whether jitter is on or off; jitter only changes the duration
\* slept, which is the tracked delay without jitter and at least that and
\* less than 1.3 times that with it; exactly one sleep happens after each
\* failed attempt except the last one, none after the final failure or a
\* success.
C33_Backoff ==
    retry.pc # "idle" =>
        /\ retry.delay = TrackedDelay(retry.sleeps)
        /\ Len(retry.slept) = retry.sleeps
        /\ \A i \in DOMAIN retry.slept :
                IF policy.jitter
                THEN /\ 10 * TrackedDelay(i - 1) <= retry.slept[i]
                     /\ retry.slept[i] < 13 * TrackedDelay(i - 1)
                ELSE retry.slept[i] = 10 * TrackedDelay(i - 1)
        /\ retry.pc = "call" => retry.sleeps = retry.invocations
        /\ retry.pc = "sleep" =>
                /\ retry.sleeps = retry.invocations - 1
                /\ ~retryLog[Len(retryLog)].ok
                /\ retry.invocations < policy.max_attempts
        /\ retry.pc = "done" =>
                /\ retry.sleeps = retry.invocations - 1
                /\ retry.sleeps = Cardinality({i \in 1 .. (Len(retryLog) - 1) : ~retryLog[i].ok})

\* C33 witness: with jitter, three failures under initial_delay 2, base 2 and
\* max_delay 3: the sleeps were a jittered 2 s and then a jittered 3 s, the
\* cap, and no sleep followed the last failure.
C33_Witness ==
    /\ policy = [max_attempts |-> 3, initial_delay |-> 2, max_delay |-> 3,
                 exponential_base |-> 2, jitter |-> TRUE]
    /\ retry.pc = "done"
    /\ retryRes.status = "err"
    /\ retry.slept = <<22, 33>>
    /\ retry.delay = 3


\* ---------------------------------------------------------------------------
\* Listeners: the order of notifications of concurrent calls
\* ---------------------------------------------------------------------------

\* Call c committed s0 -> s1 and call d, of another task, right after it
\* committed s1 -> s2.
CommittedInARow(c, d) ==
    /\ callLog[c].by # callLog[d].by
    /\ callLog[c].at > 0
    /\ callLog[d].at = callLog[c].at + 1
    /\ callLog[d].old = callLog[c].to

\* C39: if two transition_to calls of different tasks both succeed and the
\* first commits s0 -> s1 before the second commits s1 -> s2, every listener
\* receives the (s0, s1) notification before the (s1, s2) notification.  The
\* state guard is dropped before notify_listeners is entered, and the second
\* task can commit and notify before the first has notified.
C39_NotifiedInCommitOrder ==
    \A i, j \in DOMAIN notes :
        (/\ notes[i].listener = notes[j].listener
         /\ CommittedInARow(notes[i].call, notes[j].call)) => i < j

\* What the code has of it: a notification follows the commit of its call
\* and carries the states that call committed, and the notifications of one
\* task are delivered in the order of its commits.
NotifiedInCommitOrderPerTask ==
    /\ \A i \in DOMAIN notes :
            /\ callLog[notes[i].call].at > 0
            /\ notes[i].old = callLog[notes[i].call].old
            /\ notes[i].new = callLog[notes[i].call].to
    /\ \A i, j \in DOMAIN notes :
            (/\ callLog[notes[i].call].by = callLog[notes[j].call].by
             /\ callLog[notes[i].call].at < callLog[notes[j].call].at) => i < j

\* A listener was told of the second commit before it was told of the first.
NotifiedOutOfCommitOrder ==
    \E i, j \in DOMAIN notes :
        /\ i < j
        /\ notes[i].listener = notes[j].listener
        /\ CommittedInARow(notes[j].call, notes[i].call)
        /\ notes[i].old = "Initializing" /\ notes[i].new = "Initialized"
        /\ notes[j].old = "Created" /\ notes[j].new = "Initializing"


(***************************************************************************)
(* CircuitBreaker shared by concurrent callers: every caller may enter     *)
(* call() while the operations of others are running; the steps under the  *)
(* mutex, CbCall and CbReturn, are the atomic ones.                        *)
(***************************************************************************)
\* CircuitBreaker::new with thresholds of at least 1 and a timeout of one
\* unit of the clock: an Open breaker rejects the calls made in the unit it
\* opened in and half-opens at the first call after it.
InitBreakerShared ==
    /\ InitBreaker
    /\ cbCfg.failure_threshold >= 1
    /\ cbCfg.success_threshold >= 1
    /\ cbCfg.timeout = 1

\* What the operations of the callers return: Ok, or an error.
SharedOutcomes == {"ok", unknown}

NextBreaker ==
    \/ \E c \in BreakerCallers : CbCall(c)
    \/ \E c \in BreakerCallers, o \in SharedOutcomes : CbReturn(c, o)
    \/ CbTick

SpecBreaker == InitBreakerShared /\ [][NextBreaker]_vars

\* The callers whose operation is running.
Executing == {c \in BreakerCallers : cbTask[c].pc = "running"}

\* C31: half-open admission is not limited to one trial: a call is rejected
\* only by a breaker that is Open, so a HalfOpen breaker admits every caller
\* whatever operations are running; the admission is decided under the mutex
\* and the mutex released before the operation runs, and two callers can be
\* executing their operations at the same time while the breaker is HalfOpen.
C31_HalfOpenAdmitsEveryCaller ==
    /\ cbLast.call = "rejected" =>
            /\ cbLast.pre.state = "Open"
            /\ cbLast.post.state = "Open"
    /\ \A c \in Executing : cbTask[c].mid.state \in {"Closed", "HalfOpen"}

\* C31 witness: both callers are executing their operations, each admitted
\* by the breaker in HalfOpen (the first by half-opening it), and the breaker
\* is HalfOpen.
C31_Witness ==
    /\ Executing = BreakerCallers
    /\ cb.state = "HalfOpen"
    /\ \A c \in BreakerCallers : cbTask[c].mid.state = "HalfOpen"
    /\ \E c \in BreakerCallers : cbTask[c].pre.state = "HalfOpen"


\* C36: for failure_threshold >= 1 and success_threshold >= 1, under any
\* interleaving of concurrent call()s: state = Closed implies failure_count <
\* failure_threshold, state = HalfOpen implies success_count <
\* success_threshold, and state = Open implies last_failure_time is set, so
\* the rejection of an Open breaker with no timestamp never happens.
C36_CounterInvariants ==
    (cbCfg.failure_threshold >= 1 /\ cbCfg.success_threshold >= 1) =>
        /\ cb.state = "Closed" => cb.failure_count < cbCfg.failure_threshold
        /\ cb.state = "HalfOpen" => cb.success_count < cbCfg.success_threshold
        /\ cb.state = "Open" => cb.last_failure_time # NoTime
        /\ cbLast.call = "rejected" => cbLast.pre.last_failure_time # NoTime

\* C36 witness: a call admitted by the Closed breaker failed after another
\* had opened it: the breaker is Open with failure_count past the threshold.
C36_Witness ==
    /\ cb.state = "Open"
    /\ cb.failure_count > cbCfg.failure_threshold
    /\ cbLast.call = "err"
    /\ cbLast.mid.state = "Closed"
    /\ cb.last_failure_time # NoTime

\* C37: only trial calls count towards closing the breaker: a call admitted
\* while the breaker was Closed that completes successfully after the breaker
\* has gone Open and then HalfOpen does not increment success_count and does
\* not move the breaker to Closed; and a call completing while the breaker is
\* Open does not change the breaker's state.  The first half fails: the
\* success path looks only at the state the breaker is in when the call
\* completes.
C37_OnlyTrialsCount ==
    [][\A c \in BreakerCallers :
        (cbTask[c].pc = "running" /\ cbTask'[c].pc = "idle") =>
            /\ (/\ cbTask[c].mid.state = "Closed"
                /\ cb.state = "HalfOpen"
                /\ cbLast'.call = "ok") =>
                    /\ cb'.success_count = cb.success_count
                    /\ cb'.state = "HalfOpen"
            /\ cb.state = "Open" => cb'.state = "Open"]_vars

\* What the code has of it: a call completing while the breaker is Open
\* leaves it Open, a success changing nothing at all and a failure adding to
\* failure_count and renewing last_failure_time; a success completing while
\* the breaker is HalfOpen adds 1 to success_count whatever state admitted
\* the call.
CompletionsLookAtCurrentState ==
    [][\A c \in BreakerCallers :
        (cbTask[c].pc = "running" /\ cbTask'[c].pc = "idle") =>
            /\ cb.state = "Open" =>
                    /\ cb'.state = "Open"
                    /\ cbLast'.call = "ok" => cb' = cb
                    /\ cbLast'.call = "err" =>
                            cb' = [cb EXCEPT !.failure_count = @ + 1, !.last_failure_time = now]
            /\ (cb.state = "HalfOpen" /\ cbLast'.call = "ok") =>
                    cb'.success_count = cb.success_count + 1]_vars

\* A call admitted by the Closed breaker returned Ok when the breaker was
\* HalfOpen, and closed it.
StragglerClosesBreaker ==
    /\ cbLast.call = "ok"
    /\ cbLast.mid.state = "Closed"
    /\ cbLast.post.state = "Closed"
    /\ cbLast.post.success_count = 1
    /\ \E c \in Executing : cbTask[c].mid.state = "HalfOpen" /\ cbTask[c].pre.state = "Open"

============================================================================
